---- MODULE Spec2Model ----
(***************************************************************************)
(* Drug dosage calculator: the stock and dilution calculators, the input   *)
(* validators and the Calculate handlers of the two calculator screens.    *)
(*                                                                         *)
(* Python's float is an IEEE-754 binary64 number.  The calculators are     *)
(* modelled on binary64 values with round-to-nearest-even, so that the     *)
(* equalities and inequalities the calculators are expected to satisfy are *)
(* decided by the arithmetic the program really performs.  A number is a   *)
(* sign, a natural mantissa of arbitrary size and a binary exponent; the   *)
(* mantissa is a little-endian sequence of limbs.                          *)
(***************************************************************************)
EXTENDS Integers, Sequences, FiniteSets, TLC

(***************************************************************************)
(* Natural numbers of arbitrary size (the mantissas of exact values).      *)
(***************************************************************************)
Base == 2^15

RECURSIVE BitLenNat(_)
BitLenNat(n) == IF n = 0 THEN 0 ELSE 1 + BitLenNat(n \div 2)

LimbBits == BitLenNat(Base) - 1

Big0 == <<>>
Big1 == <<1>>

RECURSIVE BigNorm(_)
BigNorm(a) ==
    IF a = <<>> THEN <<>>
    ELSE IF a[Len(a)] = 0 THEN BigNorm(SubSeq(a, 1, Len(a) - 1))
    ELSE a

RECURSIVE BigFromNat(_)
BigFromNat(n) ==
    IF n = 0 THEN <<>> ELSE <<n % Base>> \o BigFromNat(n \div Base)

Limb(a, i) == IF i <= Len(a) THEN a[i] ELSE 0

RECURSIVE BigCmpAt(_, _, _)
BigCmpAt(a, b, i) ==
    IF i = 0 THEN 0
    ELSE IF a[i] < b[i] THEN -1
    ELSE IF a[i] > b[i] THEN 1
    ELSE BigCmpAt(a, b, i - 1)

BigCmp(a, b) ==
    IF Len(a) < Len(b) THEN -1
    ELSE IF Len(a) > Len(b) THEN 1
    ELSE BigCmpAt(a, b, Len(a))

RECURSIVE BigAddAt(_, _, _, _)
BigAddAt(a, b, i, c) ==
    IF i > Len(a) /\ i > Len(b)
    THEN (IF c = 0 THEN <<>> ELSE <<c>>)
    ELSE LET s == Limb(a, i) + Limb(b, i) + c
         IN  <<s % Base>> \o BigAddAt(a, b, i + 1, s \div Base)

BigAdd(a, b) == BigAddAt(a, b, 1, 0)

RECURSIVE BigSubAt(_, _, _, _)
BigSubAt(a, b, i, c) ==
    IF i > Len(a) THEN <<>>
    ELSE LET d == a[i] - Limb(b, i) - c
         IN  IF d < 0
             THEN <<d + Base>> \o BigSubAt(a, b, i + 1, 1)
             ELSE <<d>> \o BigSubAt(a, b, i + 1, 0)

\* a - b for a >= b
BigSub(a, b) == BigNorm(BigSubAt(a, b, 1, 0))

RECURSIVE BigMulSmallAt(_, _, _, _)
BigMulSmallAt(a, m, i, c) ==
    IF i > Len(a) THEN (IF c = 0 THEN <<>> ELSE <<c>>)
    ELSE LET p == a[i] * m + c
         IN  <<p % Base>> \o BigMulSmallAt(a, m, i + 1, p \div Base)

\* a * m for 0 <= m < Base
BigMulSmall(a, m) == IF m = 0 THEN <<>> ELSE BigMulSmallAt(a, m, 1, 0)

Zeros(n) == [i \in 1..n |-> 0]

RECURSIVE BigMulAt(_, _, _)
BigMulAt(a, b, i) ==
    IF i > Len(b) THEN <<>>
    ELSE BigAdd(IF b[i] = 0 \/ a = <<>> THEN <<>>
                ELSE Zeros(i - 1) \o BigMulSmall(a, b[i]),
                BigMulAt(a, b, i + 1))

BigMul(a, b) == BigMulAt(a, b, 1)

\* a * 2^k
BigShl(a, k) ==
    IF a = <<>> THEN <<>>
    ELSE Zeros(k \div LimbBits) \o BigMulSmall(a, 2^(k % LimbBits))

\* the quotient digit q put above the digits of rest[1]
PushDigit(rest, q) == <<rest[1] \o <<q>>, rest[2]>>

RECURSIVE BigDivSmallAt(_, _, _, _)
BigDivSmallStep(a, d, i, cur) ==
    IF cur >= 0 THEN PushDigit(BigDivSmallAt(a, d, i - 1, cur % d), cur \div d)
    ELSE <<>>

BigDivSmallAt(a, d, i, r) ==
    IF i = 0 THEN <<<<>>, r>> ELSE BigDivSmallStep(a, d, i, r * Base + a[i])

NormQuotient(r) == <<BigNorm(r[1]), r[2]>>

\* <<a div d, a mod d>> for 0 < d <= Base
BigDivModSmall(a, d) == NormQuotient(BigDivSmallAt(a, d, Len(a), 0))

\* floor(a / 2^k)
BigShr(a, k) ==
    IF k \div LimbBits >= Len(a) THEN <<>>
    ELSE BigDivModSmall(SubSeq(a, k \div LimbBits + 1, Len(a)),
                        2^(k % LimbBits))[1]

BigBitLen(a) ==
    IF a = <<>> THEN 0
    ELSE LimbBits * (Len(a) - 1) + BitLenNat(a[Len(a)])

BigIsOdd(a) == a # <<>> /\ a[1] % 2 = 1

\* bit i (1 = least significant) of a
BigBit(a, i) ==
    (Limb(a, (i - 1) \div LimbBits + 1) \div 2^((i - 1) % LimbBits)) % 2

\* the largest d < 2^(k+1) + d0 with b * d <= cur, found bit by bit
RECURSIVE QuotientDigit(_, _, _, _)
QuotientDigit(cur, b, d, k) ==
    IF k < 0 THEN d
    ELSE IF BigCmp(BigMulSmall(b, d + 2^k), cur) <= 0
         THEN QuotientDigit(cur, b, d + 2^k, k - 1)
         ELSE QuotientDigit(cur, b, d, k - 1)

\* long division, one limb of the quotient per step, from the top limb of a
RECURSIVE BigDivModAt(_, _, _, _)
BigDivModDigit(a, b, i, cur, d) ==
    IF d >= 0
    THEN PushDigit(BigDivModAt(a, b, i - 1, BigSub(cur, BigMulSmall(b, d))), d)
    ELSE <<>>

BigDivModStep(a, b, i, cur) ==
    BigDivModDigit(a, b, i, cur, QuotientDigit(cur, b, 0, LimbBits - 1))

BigDivModAt(a, b, i, r) ==
    IF i = 0 THEN <<<<>>, r>>
    ELSE BigDivModStep(a, b, i, BigNorm(<<a[i]>> \o r))

RemainderFromNat(r) == <<r[1], BigFromNat(r[2])>>

\* <<a div b, a mod b>> for b > 0
BigDivMod(a, b) ==
    IF Len(b) = 1 THEN RemainderFromNat(BigDivModSmall(a, b[1]))
    ELSE NormQuotient(BigDivModAt(a, b, Len(a), <<>>))

AddToLowLimb(d, bit) == [d EXCEPT ![1] = d[1] + bit]

\* 2*r + bit
BigDouble(r, bit) ==
    IF r = <<>> THEN (IF bit = 0 THEN <<>> ELSE <<1>>)
    ELSE AddToLowLimb(BigMulSmall(r, 2), bit)

BigSquare(a) == BigMul(a, a)

RECURSIVE BigPow10(_)
BigPow10(n) ==
    IF n = 0 THEN <<1>>
    ELSE IF n % 2 = 1 THEN BigMulSmall(BigPow10(n - 1), 10)
    ELSE BigSquare(BigPow10(n \div 2))

(***************************************************************************)
(* Exact values: (-1)^s * m * 2^e with m a natural number of any size.     *)
(* Every binary64 number is an exact value; the exact operations below are *)
(* the real-number operations the calculators' formulas are stated in.     *)
(***************************************************************************)
Ex(s, m, e) == [s |-> s, m |-> m, e |-> e]

ExMul(x, y) == Ex((x.s + y.s) % 2, BigMul(x.m, y.m), x.e + y.e)

ExMinE(x, y) == IF x.e < y.e THEN x.e ELSE y.e

\* the mantissa of x at the exponent e <= x.e
ExAt(x, e) == BigShl(x.m, x.e - e)

\* -1, 0, 1 as |x| <, =, > |y|
ExCmpAbs(x, y) == BigCmp(ExAt(x, ExMinE(x, y)), ExAt(y, ExMinE(x, y)))

\* -1, 0, 1 as x <, =, > y
ExCmp(x, y) ==
    IF x.m = <<>> /\ y.m = <<>> THEN 0
    ELSE IF x.m = <<>> THEN (IF y.s = 1 THEN 1 ELSE -1)
    ELSE IF y.m = <<>> THEN (IF x.s = 1 THEN -1 ELSE 1)
    ELSE IF x.s # y.s THEN (IF x.s = 1 THEN -1 ELSE 1)
    ELSE IF x.s = 0 THEN ExCmpAbs(x, y) ELSE ExCmpAbs(y, x)

ExNeg(x) == Ex(1 - x.s, x.m, x.e)

\* the sum of (-1)^sx * mx * 2^e and (-1)^sy * my * 2^e
ExAddAt(sx, mx, sy, my, e) ==
    IF sx = sy THEN Ex(sx, BigAdd(mx, my), e)
    ELSE IF BigCmp(mx, my) >= 0 THEN Ex(sx, BigSub(mx, my), e)
    ELSE Ex(sy, BigSub(my, mx), e)

ExAdd(x, y) ==
    ExAddAt(x.s, ExAt(x, ExMinE(x, y)), y.s, ExAt(y, ExMinE(x, y)),
            ExMinE(x, y))

ExSub(x, y) == ExAdd(x, ExNeg(y))

ExAbs(x) == Ex(0, x.m, x.e)

\* n * 10^k as an exact value, for naturals n < 2^31 and k >= 0
ExNat(n) == Ex(0, BigFromNat(n), 0)
ExPow10(k) == Ex(0, BigPow10(k), 0)

(***************************************************************************)
(* Python float: IEEE-754 binary64.  A finite float is an exact value in   *)
(* canonical form (53-bit mantissa, or exponent MinExp for subnormals).    *)
(***************************************************************************)
MantBits == 53
MinExp == -1074
MaxExp == 1024

Fin(s, m, e) == [k |-> "fin", s |-> s, m |-> m, e |-> e]
FZero(s) == Fin(s, <<>>, 0)
FInf(s) == [k |-> "inf", s |-> s, m |-> <<>>, e |-> 0]
FNaN == [k |-> "nan", s |-> 0, m |-> <<>>, e |-> 0]

IsFin(x) == x.k = "fin"
IsZero(x) == x.k = "fin" /\ x.m = <<>>

\* a rounded mantissa t at exponent q, carried into canonical form
Canon(s, t, q) ==
    IF t = <<>> THEN FZero(s)
    ELSE IF BigBitLen(t) > MantBits
         THEN (IF q + 1 + MantBits > MaxExp THEN FInf(s)
               ELSE Fin(s, BigShr(t, 1), q + 1))
    ELSE IF q + BigBitLen(t) > MaxExp THEN FInf(s)
    ELSE Fin(s, t, q)

\* the exponent of the last mantissa bit of the float nearest to m * 2^e
RoundExp(m, e) ==
    IF e + BigBitLen(m) - MantBits < MinExp THEN MinExp
    ELSE e + BigBitLen(m) - MantBits

\* the truncated mantissa t at exponent q, rounded up when the dropped bits
\* compare as c = 1 to half a unit, or as c = 0 and t is odd
RoundTies(s, t, q, c) ==
    IF c > 0 \/ (c = 0 /\ BigIsOdd(t)) THEN Canon(s, BigAdd(t, <<1>>), q)
    ELSE Canon(s, t, q)

\* m with its lowest k bits dropped into t
RoundDropped(s, m, t, q, k) ==
    RoundTies(s, t, q,
              BigCmp(BigSub(m, BigShl(t, k)), BigShl(<<1>>, k - 1)))

RoundAt(s, m, e, q) ==
    IF q <= e THEN Canon(s, BigShl(m, e - q), q)
    ELSE RoundDropped(s, m, BigShr(m, q - e), q, q - e)

\* the binary64 nearest to (-1)^s * m * 2^e, ties to even
RoundToDouble(s, m, e) ==
    IF m = <<>> THEN FZero(s) ELSE RoundAt(s, m, e, RoundExp(m, e))

\* x * y
FMul(x, y) ==
    IF x.k = "nan" \/ y.k = "nan" THEN FNaN
    ELSE IF x.k = "inf" \/ y.k = "inf"
         THEN (IF IsZero(x) \/ IsZero(y) THEN FNaN ELSE FInf((x.s + y.s) % 2))
    ELSE RoundToDouble((x.s + y.s) % 2, BigMul(x.m, y.m), x.e + y.e)

\* the quotient bits kept before rounding n / d: two more than the
\* mantissa, and one sticky bit for a remainder
DivShift(n, d) ==
    IF MantBits + 2 + BigBitLen(d) < BigBitLen(n) THEN 0
    ELSE MantBits + 2 + BigBitLen(d) - BigBitLen(n)

\* the quotient qr[1] with a sticky bit for the remainder qr[2]
WithSticky(qr) == BigDouble(qr[1], IF qr[2] = <<>> THEN 0 ELSE 1)

\* the binary64 nearest to (-1)^s * (n / d) * 2^e, the quotient taken
\* with sh more bits
RoundQuotient(s, n, d, e, sh) ==
    RoundToDouble(s, WithSticky(BigDivMod(BigShl(n, sh), d)), e - sh - 1)

\* x / y for y # 0 (Python raises ZeroDivisionError for y = 0)
FDiv(x, y) ==
    IF x.k = "nan" \/ y.k = "nan" THEN FNaN
    ELSE IF x.k = "inf" THEN (IF y.k = "inf" THEN FNaN ELSE FInf((x.s + y.s) % 2))
    ELSE IF y.k = "inf" \/ x.m = <<>> THEN FZero((x.s + y.s) % 2)
    ELSE RoundQuotient((x.s + y.s) % 2, x.m, y.m, x.e - y.e,
                       DivShift(x.m, y.m))

FNeg(x) == [x EXCEPT !.s = 1 - x.s]

\* x + y
RoundExact(r) == IF r.m = <<>> THEN FZero(0) ELSE RoundToDouble(r.s, r.m, r.e)

FAdd(x, y) ==
    IF x.k = "nan" \/ y.k = "nan" THEN FNaN
    ELSE IF x.k = "inf"
         THEN (IF y.k = "inf" /\ x.s # y.s THEN FNaN ELSE x)
    ELSE IF y.k = "inf" THEN y
    ELSE IF x.m = <<>> /\ y.m = <<>>
         THEN FZero(IF x.s = 1 /\ y.s = 1 THEN 1 ELSE 0)
    ELSE RoundExact(ExAdd(x, y))

\* x - y
FSub(x, y) == FAdd(x, FNeg(y))

\* comparisons with Python's semantics: every comparison with nan is false
FCmp(x, y) ==
    IF x.k = "inf" THEN (IF y.k = "inf" /\ y.s = x.s THEN 0
                         ELSE IF x.s = 1 THEN -1 ELSE 1)
    ELSE IF y.k = "inf" THEN (IF y.s = 1 THEN 1 ELSE -1)
    ELSE ExCmp(x, y)

FGt(x, y) == x.k # "nan" /\ y.k # "nan" /\ FCmp(x, y) > 0
FLe(x, y) == x.k # "nan" /\ y.k # "nan" /\ FCmp(x, y) <= 0
FLt(x, y) == x.k # "nan" /\ y.k # "nan" /\ FCmp(x, y) < 0
FEq(x, y) == x.k # "nan" /\ y.k # "nan" /\ FCmp(x, y) = 0

\* the float of the decimal literal (-1)^s * d * 10^e10, d a mantissa
\* of nd decimal digits
DecimalQuotient(s, d, den) == RoundQuotient(s, d, den, 0, DivShift(d, den))

DecimalToDouble(s, d, nd, e10) ==
    IF d = <<>> THEN FZero(s)
    ELSE IF e10 + nd > 310 THEN FInf(s)
    ELSE IF e10 + nd < -330 THEN FZero(s)
    ELSE IF e10 >= 0 THEN RoundToDouble(s, BigMul(d, BigPow10(e10)), 0)
    ELSE DecimalQuotient(s, d, BigPow10(-e10))

\* the float of a natural number literal n < 2^31 times 10^e10
Lit(n, e10) == DecimalToDouble(0, BigFromNat(n), 1, e10)

(***************************************************************************)
(* Text: a string is a sequence of one-character strings.                  *)
(***************************************************************************)
Digits == {"0", "1", "2", "3", "4", "5", "6", "7", "8", "9"}

DigitVal(c) ==
    CASE c = "0" -> 0 [] c = "1" -> 1 [] c = "2" -> 2 [] c = "3" -> 3
      [] c = "4" -> 4 [] c = "5" -> 5 [] c = "6" -> 6 [] c = "7" -> 7
      [] c = "8" -> 8 [] c = "9" -> 9

Whitespace == {" "}

\* str.lower() on the letters float() looks at
Lower(c) ==
    CASE c = "A" -> "a" [] c = "E" -> "e" [] c = "F" -> "f" [] c = "I" -> "i"
      [] c = "N" -> "n" [] c = "T" -> "t" [] c = "Y" -> "y" [] OTHER -> c

LowerStr(t) == [i \in 1..Len(t) |-> Lower(t[i])]

RECURSIVE LStrip(_)
LStrip(t) ==
    IF t # <<>> /\ t[1] \in Whitespace THEN LStrip(Tail(t)) ELSE t

RECURSIVE RStrip(_)
RStrip(t) ==
    IF t # <<>> /\ t[Len(t)] \in Whitespace
    THEN RStrip(SubSeq(t, 1, Len(t) - 1))
    ELSE t

\* str.strip()
Strip(t) == RStrip(LStrip(t))

\* "c in t"
Contains(t, c) == \E i \in 1..Len(t) : t[i] = c

\* the first position of a character of cs in t, 0 when there is none
FirstOf(t, cs) ==
    IF \E i \in 1..Len(t) : t[i] \in cs
    THEN CHOOSE i \in 1..Len(t) :
             t[i] \in cs /\ \A j \in 1..(i - 1) : t[j] \notin cs
    ELSE 0

(***************************************************************************)
(* float(text): Python's conversion of a string to a float.  The result is *)
(* [ok |-> TRUE, v |-> the float] or [ok |-> FALSE] for ValueError.        *)
(***************************************************************************)
\* digits, with single underscores allowed between two digits
IsDigitRun(t) ==
    /\ t # <<>>
    /\ \A i \in 1..Len(t) : t[i] \in Digits \cup {"_"}
    /\ t[1] \in Digits
    /\ t[Len(t)] \in Digits
    /\ \A i \in 1..(Len(t) - 1) : ~(t[i] = "_" /\ t[i + 1] = "_")

IsDigit(c) == c \in Digits

DigitsOf(t) == SelectSeq(t, IsDigit)

RECURSIVE BigFromDigits(_)
BigFromDigits(ds) ==
    IF ds = <<>> THEN <<>>
    ELSE BigAdd(BigMulSmall(BigFromDigits(SubSeq(ds, 1, Len(ds) - 1)), 10),
                BigFromNat(DigitVal(ds[Len(ds)])))

\* the value of an exponent's digits; exponents beyond 4 digits are
\* past every finite float and are all read as 10000
RECURSIVE NatFromDigits(_)
NatFromDigits(ds) ==
    IF ds = <<>> THEN 0
    ELSE IF Len(ds) > 4 THEN (IF \A i \in 1..Len(ds) : ds[i] = "0" THEN 0 ELSE 10000)
    ELSE 10 * NatFromDigits(SubSeq(ds, 1, Len(ds) - 1)) + DigitVal(ds[Len(ds)])

ValueError == [ok |-> FALSE]
Parsed(v) == [ok |-> TRUE, v |-> v]

SignOf(t) == IF t # <<>> /\ t[1] = "-" THEN 1 ELSE 0
Unsigned(t) == IF t # <<>> /\ t[1] \in {"+", "-"} THEN Tail(t) ELSE t

\* the mantissa part: digits [. [digits]] or . digits
MantissaOk(t) ==
    LET p == FirstOf(t, {"."})
        ip == IF p = 0 THEN t ELSE SubSeq(t, 1, p - 1)
        fp == IF p = 0 THEN <<>> ELSE SubSeq(t, p + 1, Len(t))
    IN  /\ (ip # <<>> \/ fp # <<>>)
        /\ (ip = <<>> \/ IsDigitRun(ip))
        /\ (fp = <<>> \/ IsDigitRun(fp))

IntPart(t) ==
    LET p == FirstOf(t, {"."}) IN IF p = 0 THEN t ELSE SubSeq(t, 1, p - 1)
FracPart(t) ==
    LET p == FirstOf(t, {"."}) IN IF p = 0 THEN <<>> ELSE SubSeq(t, p + 1, Len(t))

\* the exponent part after e or E: [sign] digits
ExponentOk(t) == IsDigitRun(Unsigned(t))
ExponentVal(t) ==
    IF SignOf(t) = 1 THEN -NatFromDigits(DigitsOf(Unsigned(t)))
    ELSE NatFromDigits(DigitsOf(Unsigned(t)))

\* a finite decimal literal without its sign
ParseFinite(s, t) ==
    LET p  == FirstOf(t, {"e", "E"})
        mt == IF p = 0 THEN t ELSE SubSeq(t, 1, p - 1)
        et == IF p = 0 THEN <<>> ELSE SubSeq(t, p + 1, Len(t))
        ds == DigitsOf(IntPart(mt)) \o DigitsOf(FracPart(mt))
        x  == IF p = 0 THEN 0 ELSE ExponentVal(et)
    IN  IF ~MantissaOk(mt) \/ (p # 0 /\ ~ExponentOk(et)) THEN ValueError
        ELSE Parsed(DecimalToDouble(s, BigFromDigits(ds), Len(ds),
                                    x - Len(DigitsOf(FracPart(mt)))))

PyFloat(text) ==
    LET t == Strip(text)
        u == LowerStr(Unsigned(t))
    IN  IF u \in {<<"i", "n", "f">>,
                  <<"i", "n", "f", "i", "n", "i", "t", "y">>}
        THEN Parsed(FInf(SignOf(t)))
        ELSE IF u = <<"n", "a", "n">> THEN Parsed(FNaN)
        ELSE ParseFinite(SignOf(t), Unsigned(t))

(***************************************************************************)
(* Closeness of a computed float to the exact value a formula denotes.     *)
(***************************************************************************)
\* |x - y| <= 10^-9 * |z|, the relative tolerance 1e-9 of exact values
CloseTo(x, y, z) ==
    ExCmp(ExMul(ExAbs(ExSub(x, y)), ExPow10(9)), ExAbs(z)) <= 0

\* |x - y| <= 10^-9 * |y|
CloseRel(x, y) == CloseTo(x, y, y)

(***************************************************************************)
(* src/calculators.py                                                      *)
(***************************************************************************)
Raised(exc) == [raised |-> exc]
IsRaised(r) == "raised" \in DOMAIN r

concentration_conversion ==
    [u \in {"M", "mM", "µM", "nM"} |->
        CASE u = "M" -> Lit(1, 0) [] u = "mM" -> Lit(1, -3)
          [] u = "µM" -> Lit(1, -6) [] u = "nM" -> Lit(1, -9)]

volume_conversion ==
    [u \in {"L", "mL", "µL"} |->
        CASE u = "L" -> Lit(1, 0) [] u = "mL" -> Lit(1, -3)
          [] u = "µL" -> Lit(1, -6)]

\* a calculate_stock_from_powder that multiplies by the volume as given,
\* without converting it to liters
stock_without_volume_conversion(molecular_weight, target_concentration, target_volume, concentration_unit, volume_unit) ==
    IF concentration_unit \notin DOMAIN concentration_conversion
       \/ volume_unit \notin DOMAIN volume_conversion
    THEN Raised("KeyError")
    ELSE LET concentration_M ==
                 FMul(target_concentration,
                      concentration_conversion[concentration_unit])
             mass_g == FMul(FMul(concentration_M, target_volume),
                            molecular_weight)
         IN  [mass_mg |-> FMul(mass_g, Lit(1000, 0)), mass_g |-> mass_g,
              volume |-> target_volume, volume_unit |-> volume_unit]

calculate_stock_from_powder(molecular_weight, target_concentration, target_volume, concentration_unit, volume_unit) ==
    IF concentration_unit \notin DOMAIN concentration_conversion
       \/ volume_unit \notin DOMAIN volume_conversion
    THEN Raised("KeyError")
    ELSE LET concentration_M ==
                 FMul(target_concentration,
                      concentration_conversion[concentration_unit])
             volume_L == FMul(target_volume, volume_conversion[volume_unit])
             mass_g   == FMul(FMul(concentration_M, volume_L), molecular_weight)
             mass_mg  == FMul(mass_g, Lit(1000, 0))
         IN  [mass_mg |-> mass_mg, mass_g |-> mass_g,
              volume |-> target_volume, volume_unit |-> volume_unit]

\* a calculate_dilution without the feasibility check
dilution_without_check(stock_concentration, target_concentration, target_volume, concentration_unit, volume_unit) ==
    IF IsZero(stock_concentration) \/ IsZero(target_concentration)
    THEN Raised("ZeroDivisionError")
    ELSE LET stock_volume ==
                 FDiv(FMul(target_concentration, target_volume),
                      stock_concentration)
         IN  [stock_volume |-> stock_volume,
              solvent_volume |-> FSub(target_volume, stock_volume),
              total_volume |-> target_volume, volume_unit |-> volume_unit,
              dilution_factor |->
                  FDiv(stock_concentration, target_concentration),
              error |-> FALSE]

\* a calculate_dilution that solves C1 V1 = C2 V2 with the two
\* concentrations exchanged
dilution_with_swapped_ratio(stock_concentration, target_concentration, target_volume, concentration_unit, volume_unit) ==
    IF FGt(target_concentration, stock_concentration)
    THEN [error |-> TRUE,
          message |-> "Target concentration cannot exceed stock concentration"]
    ELSE IF IsZero(stock_concentration) \/ IsZero(target_concentration)
    THEN Raised("ZeroDivisionError")
    ELSE LET stock_volume ==
                 FDiv(FMul(stock_concentration, target_volume),
                      target_concentration)
         IN  [stock_volume |-> stock_volume,
              solvent_volume |-> FSub(target_volume, stock_volume),
              total_volume |-> target_volume, volume_unit |-> volume_unit,
              dilution_factor |->
                  FDiv(stock_concentration, target_concentration),
              error |-> FALSE]

calculate_dilution(stock_concentration, target_concentration, target_volume, concentration_unit, volume_unit) ==
    IF FGt(target_concentration, stock_concentration)
    THEN [error |-> TRUE,
          message |-> "Target concentration cannot exceed stock concentration"]
    ELSE IF IsZero(stock_concentration) \/ IsZero(target_concentration)
    THEN Raised("ZeroDivisionError")
    ELSE LET stock_volume ==
                 FDiv(FMul(target_concentration, target_volume),
                      stock_concentration)
             solvent_volume  == FSub(target_volume, stock_volume)
             dilution_factor == FDiv(stock_concentration, target_concentration)
         IN  [stock_volume |-> stock_volume, solvent_volume |-> solvent_volume,
              total_volume |-> target_volume, volume_unit |-> volume_unit,
              dilution_factor |-> dilution_factor, error |-> FALSE]

None == [k |-> "None"]

FNonPositive(x) == FLe(x, FZero(0))

validate_inputs(molecular_weight, concentration, volume) ==
    IF molecular_weight # None /\ FNonPositive(molecular_weight)
    THEN <<FALSE, "Molecular weight must be positive">>
    ELSE IF concentration # None /\ FNonPositive(concentration)
    THEN <<FALSE, "Concentration must be positive">>
    ELSE IF volume # None /\ FNonPositive(volume)
    THEN <<FALSE, "Volume must be positive">>
    ELSE <<TRUE, "">>

(***************************************************************************)
(* src/formatters.py                                                       *)
(***************************************************************************)
\* a validate_decimal_input without its test for a comma
validate_without_comma_check(input_string) ==
    LET stripped == Strip(input_string)
    IN  IF stripped = <<>> THEN <<FALSE, <<>>, "Please enter a value">>
        ELSE IF PyFloat(stripped).ok THEN <<TRUE, stripped, "">>
        ELSE <<FALSE, stripped, "Please enter a valid number">>

validate_decimal_input(input_string) ==
    LET stripped == Strip(input_string)
    IN  IF stripped = <<>> THEN <<FALSE, <<>>, "Please enter a value">>
        ELSE IF Contains(stripped, ",")
        THEN <<FALSE, stripped,
               "Please use period (.) for decimals, not comma (,)">>
        ELSE IF PyFloat(stripped).ok THEN <<TRUE, stripped, "">>
        ELSE <<FALSE, stripped, "Please enter a valid number">>

(***************************************************************************)
(* Formatting of a float as decimal text, as Python's format() does it:    *)
(* the exact binary value is rounded to the requested digits, ties to      *)
(* even.                                                                   *)
(***************************************************************************)
DigitChar(d) ==
    CASE d = 0 -> "0" [] d = 1 -> "1" [] d = 2 -> "2" [] d = 3 -> "3"
      [] d = 4 -> "4" [] d = 5 -> "5" [] d = 6 -> "6" [] d = 7 -> "7"
      [] d = 8 -> "8" [] d = 9 -> "9"

\* the decimal digits of a natural number, <<>> for 0
RECURSIVE BigDigits(_)
BigDigitsPush(qr) == BigDigits(qr[1]) \o <<DigitChar(qr[2])>>

BigDigits(a) == IF a = <<>> THEN <<>> ELSE BigDigitsPush(BigDivModSmall(a, 10))

RECURSIVE NatDigits(_)
NatDigits(n) ==
    IF n < 10 THEN <<DigitChar(n)>>
    ELSE NatDigits(n \div 10) \o <<DigitChar(n % 10)>>

HalfEven(t, c) ==
    IF c > 0 \/ (c = 0 /\ BigIsOdd(t)) THEN BigAdd(t, <<1>>) ELSE t

\* n / 2^k to the nearest integer, t its integer part
RoundShifted(n, t, k) ==
    HalfEven(t, BigCmp(BigSub(n, BigShl(t, k)), BigShl(<<1>>, k - 1)))

\* n * 2^e to the nearest integer
RoundScaled(n, e) ==
    IF e >= 0 THEN BigShl(n, e) ELSE RoundShifted(n, BigShr(n, -e), -e)

\* |x| * 10^d to the nearest integer, for a finite x and d >= 0
DecimalRound(x, d) == RoundScaled(BigMul(x.m, BigPow10(d)), x.e)

PadZeros(ds, n) ==
    IF Len(ds) >= n THEN ds ELSE [i \in 1..(n - Len(ds)) |-> "0"] \o ds

\* the digits ds with a period before the last d of them
PointBefore(ds, d) ==
    IF d = 0 THEN ds
    ELSE SubSeq(ds, 1, Len(ds) - d) \o <<".">>
             \o SubSeq(ds, Len(ds) - d + 1, Len(ds))

Signed(s, t) == IF s = 1 THEN <<"-">> \o t ELSE t

NonFinite(x) ==
    IF x.k = "nan" THEN <<"n", "a", "n">> ELSE Signed(x.s, <<"i", "n", "f">>)

\* f"{x:.df}"
FormatFixed(x, d) ==
    IF ~IsFin(x) THEN NonFinite(x)
    ELSE Signed(x.s, PointBefore(PadZeros(BigDigits(DecimalRound(x, d)),
                                          d + 1), d))

\* the decimal exponent of a finite x with 0 < |x| < 10^(X + 1):
\* the X' <= X with 10^X' <= |x| < 10^(X' + 1); X < 0
RECURSIVE DecimalExponent(_, _)
DecimalExponent(x, X) ==
    IF ExCmpAbs(Ex(0, BigMul(x.m, BigPow10(-X)), x.e), Ex(0, <<1>>, 0)) >= 0
    THEN X
    ELSE DecimalExponent(x, X - 1)

\* str.rstrip(c)
RECURSIVE RStripChar(_, _)
RStripChar(t, c) ==
    IF t # <<>> /\ t[Len(t)] = c THEN RStripChar(SubSeq(t, 1, Len(t) - 1), c)
    ELSE t

\* the four digits ds of a %g mantissa without their trailing zeros, a
\* period after the first when more than one remains
Mantissa(ds) ==
    IF Len(ds) = 1 THEN ds ELSE <<ds[1]>> \o <<".">> \o Tail(ds)

\* the digits ds at the decimal exponent X in the notation %g chooses:
\* scientific for X < -4, with an exponent of at least two digits
GNotation(s, ds, X) ==
    IF X < -4
    THEN Signed(s, Mantissa(ds) \o <<"e", "-">> \o PadZeros(NatDigits(-X), 2))
    ELSE Signed(s, <<"0", ".">> \o [i \in 1..(-X - 1) |-> "0"] \o ds)

\* n is |x| rounded to four digits at the exponent X; a carry to 10000
\* moves to the next exponent
GRounded(s, n, X) ==
    IF n = BigFromNat(10000) THEN GNotation(s, <<"1">>, X + 1)
    ELSE GNotation(s, RStripChar(BigDigits(n), "0"), X)

GAtExponent(x, X) == GRounded(x.s, DecimalRound(x, 3 - X), X)

\* f"{x:.4g}" for a finite x with 0 < |x| < 0.01
FormatG4(x) == GAtExponent(x, DecimalExponent(x, -3))

FAbs(x) == [x EXCEPT !.s = 0]

\* the f-string format_number chooses by the band of abs(value)
FormatBand(abs_value, value) ==
    IF FLt(abs_value, Lit(1, -2)) THEN FormatG4(value)
    ELSE IF FLt(abs_value, Lit(10, 0)) THEN FormatFixed(value, 2)
    ELSE IF FLt(abs_value, Lit(100, 0)) THEN FormatFixed(value, 1)
    ELSE FormatFixed(value, 0)

StripZeros(formatted) ==
    IF Contains(formatted, ".")
    THEN RStripChar(RStripChar(formatted, "0"), ".")
    ELSE formatted

format_number(value) ==
    IF value = None \/ IsZero(value) THEN <<"0">>
    ELSE StripZeros(FormatBand(FAbs(value), value))

format_result_with_unit(value, unit) == format_number(value) \o <<" ">> \o unit

(***************************************************************************)
(* State.                                                                  *)
(*   current_mode  the screen shown: "None" (menu), "stock", "dilution"    *)
(*   entries       the text of every entry field of the screen             *)
(*   units         the selection of every read-only unit dropdown          *)
(*   dialog        the modal window open on top of the screen              *)
(*   history       the records of the history file, oldest first           *)
(*   damage        what is wrong with the bytes of the history file        *)
(*   backups       the backup files of the data directory, by time stamp   *)
(*   now           the clock, in seconds                                   *)
(*   call, ret     the last invocation of an operation and what it gave    *)
(*   cache         the in-memory cache of every PubChemAPI instance in use *)
(*   cache_file    the cache file pubchem_cache.json                       *)
(*   queries       the queries that the operation in call sent to PubChem  *)
(*   mw_lookup     the lookup widget of the stock screen                   *)
(*   threads       the background threads that have not finished           *)
(*   after_queue   the callbacks scheduled with frame.after, in order      *)
(***************************************************************************)
VARIABLES current_mode, entries, units, dialog, history, damage, backups,
          now, call, ret, cache, cache_file, queries, mw_lookup, threads,
          after_queue

vars == <<current_mode, entries, units, dialog, history, damage, backups,
          now, call, ret, cache, cache_file, queries, mw_lookup, threads,
          after_queue>>

\* the state of the PubChem lookup
pubchem_vars == <<cache, cache_file, queries, mw_lookup, threads, after_queue>>

NoCall == [fn |-> "none"]
Pending == [k |-> "pending"]
NoDialog == [kind |-> "none"]
NoEntries == [f \in {} |-> <<>>]
NoBackups == [t \in {} |-> <<>>]
NoWidget == [k |-> "none"]
NoCacheFile == [exists |-> FALSE, entries |-> NoEntries]

\* no lookup was made and no lookup widget exists
NoLookup ==
    /\ cache = NoEntries
    /\ cache_file = NoCacheFile
    /\ queries = <<>>
    /\ mw_lookup = NoWidget
    /\ threads = {}
    /\ after_queue = <<>>

\* the program before any screen is opened
Idle ==
    /\ current_mode = "None"
    /\ entries = NoEntries
    /\ units = NoEntries
    /\ dialog = NoDialog
    /\ history = <<>>
    /\ damage = "none"
    /\ backups = NoBackups
    /\ now = 0
    /\ NoLookup

(***************************************************************************)
(* Direct invocations of the two calculators.  The arguments are drawn     *)
(* from positive decimal literals and from the unit tokens, one of which   *)
(* is outside the conversion tables.                                       *)
(***************************************************************************)
MaxTenths == 3

CalcValues ==
    {Lit(n, -1) : n \in 1..MaxTenths}
        \cup {Lit(1, 0), Lit(10, 0), Lit(46635, -2)}

UnknownUnit == "dL"
ConcUnitTokens == {"M", "mM", "µM", "nM", UnknownUnit}
VolUnitTokens == {"L", "mL", "µL", UnknownUnit}

StockCalls ==
    [fn : {"calculate_stock_from_powder"},
     molecular_weight : CalcValues, target_concentration : CalcValues,
     target_volume : CalcValues,
     concentration_unit : ConcUnitTokens, volume_unit : VolUnitTokens]

DilutionCalls ==
    [fn : {"calculate_dilution"},
     stock_concentration : CalcValues, target_concentration : CalcValues,
     target_volume : CalcValues,
     concentration_unit : ConcUnitTokens, volume_unit : {"mL", UnknownUnit}]

InitCalc ==
    /\ Idle
    /\ call \in StockCalls \cup DilutionCalls
    /\ ret = Pending

CallStock ==
    /\ call.fn = "calculate_stock_from_powder"
    /\ ret = Pending
    /\ ret' = calculate_stock_from_powder(
                  call.molecular_weight, call.target_concentration,
                  call.target_volume, call.concentration_unit,
                  call.volume_unit)
    /\ UNCHANGED <<current_mode, entries, units, dialog, history, call,
                   damage, backups, now>>
    /\ UNCHANGED pubchem_vars

CallDilution ==
    /\ call.fn = "calculate_dilution"
    /\ ret = Pending
    /\ ret' = calculate_dilution(
                  call.stock_concentration, call.target_concentration,
                  call.target_volume, call.concentration_unit,
                  call.volume_unit)
    /\ UNCHANGED <<current_mode, entries, units, dialog, history, call,
                   damage, backups, now>>
    /\ UNCHANGED pubchem_vars

NextCalc == CallStock \/ CallDilution

SpecCalc == InitCalc /\ [][NextCalc]_vars

StockDone == call.fn = "calculate_stock_from_powder" /\ ret # Pending
DilutionDone == call.fn = "calculate_dilution" /\ ret # Pending

\* the decimal exponents of the scale factors of section 4.1
MolarExp10 == [u \in {"M", "mM", "µM", "nM"} |->
                  CASE u = "M" -> 0 [] u = "mM" -> 3
                    [] u = "µM" -> 6 [] u = "nM" -> 9]
LiterExp10 == [u \in {"L", "mL", "µL"} |->
                  CASE u = "L" -> 0 [] u = "mL" -> 3 [] u = "µL" -> 6]

StockUnitsKnown ==
    /\ call.concentration_unit \in DOMAIN MolarExp10
    /\ call.volume_unit \in DOMAIN LiterExp10

IsScenario1 ==
    /\ call.molecular_weight = Lit(46635, -2)
    /\ call.target_concentration = Lit(10, 0)
    /\ call.target_volume = Lit(1, 0)
    /\ call.concentration_unit = "mM"
    /\ call.volume_unit = "mL"

\* C1: for positive inputs and supported units, calculate_stock_from_powder
\* returns mass_g equal (to relative tolerance 1e-9) to the concentration in
\* molar times the volume in liters times the molecular weight, and
\* mass_mg equal to 1000 * mass_g; (466.35, 10, 1, mM, mL) gives a mass_mg
\* of 4.6635.
C1_StockMass ==
    (StockDone /\ StockUnitsKnown) =>
        /\ ~IsRaised(ret)
        /\ CloseRel(ExMul(ret.mass_g,
                          ExPow10(MolarExp10[call.concentration_unit]
                                  + LiterExp10[call.volume_unit])),
                    ExMul(ExMul(call.target_concentration, call.target_volume),
                          call.molecular_weight))
        /\ CloseRel(ret.mass_mg, ExMul(ret.mass_g, ExNat(1000)))
        /\ IsScenario1 => CloseRel(ExMul(ret.mass_mg, ExPow10(4)), ExNat(46635))

C1_Witness == StockDone /\ IsScenario1 /\ ~IsRaised(ret)

\* C2: whenever the target concentration is greater than the stock
\* concentration, calculate_dilution returns the error marker with a message
\* and no stock_volume, solvent_volume or dilution_factor.
C2_Infeasible ==
    (DilutionDone
        /\ FGt(call.target_concentration, call.stock_concentration)) =>
        /\ DOMAIN ret = {"error", "message"}
        /\ ret.error = TRUE
        /\ ret.message = "Target concentration cannot exceed stock concentration"

C2_Witness ==
    /\ DilutionDone
    /\ FGt(call.target_concentration, call.stock_concentration)
    /\ ~IsRaised(ret) /\ ret.error = TRUE

IsScenario2 ==
    /\ call.stock_concentration = Lit(10, 0)
    /\ call.target_concentration = Lit(1, 0)
    /\ call.target_volume = Lit(10, 0)

\* C3: for positive inputs with target <= stock, calculate_dilution returns
\* stock_volume = target_conc * target_volume / stock_conc and
\* dilution_factor = stock_conc / target_conc (to relative tolerance 1e-9),
\* solvent_volume = target_volume - stock_volume (the float difference of
\* the returned values, within 1e-9 of the target volume of the exact
\* difference), and (10, 1, 10) gives exactly 1, 9 and 10.
C3_DilutionFormula ==
    (DilutionDone
        /\ FLe(call.target_concentration, call.stock_concentration)) =>
        /\ ~IsRaised(ret)
        /\ ret.error = FALSE
        /\ CloseRel(ExMul(ret.stock_volume, call.stock_concentration),
                    ExMul(call.target_concentration, call.target_volume))
        /\ ret.solvent_volume = FSub(call.target_volume, ret.stock_volume)
        /\ CloseTo(ExMul(ret.solvent_volume, call.stock_concentration),
                   ExSub(ExMul(call.target_volume, call.stock_concentration),
                         ExMul(call.target_concentration, call.target_volume)),
                   ExMul(call.target_volume, call.stock_concentration))
        /\ CloseRel(ExMul(ret.dilution_factor, call.target_concentration),
                    call.stock_concentration)
        /\ IsScenario2 =>
              /\ ret.stock_volume = Lit(1, 0)
              /\ ret.solvent_volume = Lit(9, 0)
              /\ ret.dilution_factor = Lit(10, 0)

C3_Witness == DilutionDone /\ IsScenario2 /\ ~IsRaised(ret) /\ ret.error = FALSE

\* C4: when the target concentration equals the stock concentration,
\* calculate_dilution returns a non-error result with stock_volume equal to
\* the target volume, solvent_volume equal to 0 and dilution_factor 1.
C4_NoDilution ==
    (DilutionDone
        /\ FEq(call.target_concentration, call.stock_concentration)) =>
        /\ ~IsRaised(ret)
        /\ ret.error = FALSE
        /\ FEq(ret.stock_volume, call.target_volume)
        /\ IsZero(ret.solvent_volume)
        /\ FEq(ret.dilution_factor, Lit(1, 0))

\* C5: every non-error result of calculate_dilution on positive inputs has
\* dilution_factor >= 1, 0 <= solvent_volume < total_volume,
\* 0 < stock_volume <= total_volume, stock_volume + solvent_volume =
\* total_volume, and total_volume equal to the requested target volume.
C5_ResultInvariant ==
    (DilutionDone /\ ~IsRaised(ret) /\ ret.error = FALSE) =>
        /\ FLe(Lit(1, 0), ret.dilution_factor)
        /\ FLe(FZero(0), ret.solvent_volume)
        /\ FLt(ret.solvent_volume, ret.total_volume)
        /\ FLt(FZero(0), ret.stock_volume)
        /\ FLe(ret.stock_volume, ret.total_volume)
        /\ FEq(FAdd(ret.stock_volume, ret.solvent_volume), ret.total_volume)
        /\ ret.total_volume = call.target_volume

CallUnitUnknown ==
    \/ call.fn = "calculate_stock_from_powder"
         /\ (call.concentration_unit \notin DOMAIN MolarExp10
             \/ call.volume_unit \notin DOMAIN LiterExp10)
    \/ call.fn = "calculate_dilution"
         /\ (call.concentration_unit \notin DOMAIN MolarExp10
             \/ call.volume_unit \notin DOMAIN LiterExp10)

\* C7: a unit token outside the enumerated sets never yields a numeric
\* result: each calculator returns an explicit failure value for it, it
\* neither raises an exception nor computes a number.
C7_UnrecognizedUnit ==
    ((StockDone \/ DilutionDone) /\ CallUnitUnknown) =>
        /\ ~IsRaised(ret)
        /\ "error" \in DOMAIN ret
        /\ ret.error = TRUE
        /\ "stock_volume" \notin DOMAIN ret
        /\ "mass_g" \notin DOMAIN ret

(***************************************************************************)
(* src/data_storage.py: the history store, the list of records of the     *)
(* history file.  A file json.load cannot parse is read as the empty list. *)
(***************************************************************************)
\* _load_history: the text of the history file is decoded and parsed.  Text
\* that is no JSON raises JSONDecodeError, which is answered with []; bytes
\* that cannot be decoded raise UnicodeDecodeError, which the last except
\* clause turns into IOError.
load_raises == damage = "undecodable"

load_history == IF damage = "malformed" THEN <<>> ELSE history


\* add_calculation with history.insert(0, entry) for history.append(entry)
add_calculation_at_front(h, calculation_type, drug_name, inputs, results, solvent) ==
    <<[timestamp |-> now, calculation_type |-> calculation_type,
       drug_name |-> drug_name, solvent |-> solvent,
       inputs |-> inputs, results |-> results]>> \o h

\* h is what _load_history returned; the result is what _save_history writes
add_calculation(h, calculation_type, drug_name, inputs, results, solvent) ==
    Append(h, [timestamp |-> now, calculation_type |-> calculation_type,
               drug_name |-> drug_name, solvent |-> solvent,
               inputs |-> inputs, results |-> results])

\* history[::-1]
Reversed(h) == [i \in 1..Len(h) |-> h[Len(h) + 1 - i]]

get_all_calculations == Reversed(load_history)

get_calculation_count == Len(load_history)

\* clear_history: the backup files after the records h that _load_history
\* returned are written to history_backup_<now>.json, when there are any
backup_written(h) ==
    IF h # <<>>
    THEN [t \in DOMAIN backups \cup {now} |->
             IF t = now THEN h ELSE backups[t]]
    ELSE backups

\* the methods of CalculationHistory
CalculationHistory ==
    {"add_calculation", "get_all_calculations", "clear_history",
     "get_calculation_count"}

(***************************************************************************)
(* pubchem_api.py.  An identifier is a text.  A cache maps the cache keys  *)
(* to result dictionaries; the key "<type>:<identifier>" is the pair of    *)
(* its two parts, no type holding a colon.  PubChem holds one compound,    *)
(* named "ab", with CID 12; it finds names whatever their case and the     *)
(* blanks around them.  pcp.get_compounds answers a query with "compound"  *)
(* (a list of compounds), with "none" (an empty list) or, when the service *)
(* is not up, with "failure" (any exception: no connection, a server       *)
(* error, a reply that cannot be parsed); whether the service is up is an  *)
(* input of every query.                                                   *)
(***************************************************************************)
UpperCase ==
    <<"A", "B", "C", "D", "E", "F", "G", "H", "I", "J", "K", "L", "M", "N",
      "O", "P", "Q", "R", "S", "T", "U", "V", "W", "X", "Y", "Z">>

LowerCase ==
    <<"a", "b", "c", "d", "e", "f", "g", "h", "i", "j", "k", "l", "m", "n",
      "o", "p", "q", "r", "s", "t", "u", "v", "w", "x", "y", "z">>

LetterIndex(letters, c) ==
    IF \E i \in 1..Len(letters) : letters[i] = c
    THEN CHOOSE i \in 1..Len(letters) : letters[i] = c
    ELSE 0

\* str.lower() and str.upper()
lower(t) ==
    [i \in 1..Len(t) |->
        IF LetterIndex(UpperCase, t[i]) > 0
        THEN LowerCase[LetterIndex(UpperCase, t[i])] ELSE t[i]]

upper(t) ==
    [i \in 1..Len(t) |->
        IF LetterIndex(LowerCase, t[i]) > 0
        THEN UpperCase[LetterIndex(LowerCase, t[i])] ELSE t[i]]

\* str.isdigit()
isdigit(t) == t # <<>> /\ \A i \in 1..Len(t) : t[i] \in Digits

\* str.startswith(prefix)
startswith(t, prefix) ==
    Len(t) >= Len(prefix) /\ SubSeq(t, 1, Len(prefix)) = prefix

\* str.replace(c, '')
Without(t, c) == SelectSeq(t, LAMBDA x : x # c)

\* re.match(r'^\d{1,7}-\d{2}-\d$', t)
IsCasNumber(t) ==
    /\ Len(t) >= 6
    /\ Len(t) <= 12
    /\ isdigit(SubSeq(t, 1, Len(t) - 5))
    /\ t[Len(t) - 4] = "-"
    /\ isdigit(SubSeq(t, Len(t) - 3, Len(t) - 2))
    /\ t[Len(t) - 1] = "-"
    /\ t[Len(t)] \in Digits

\* re.match(r'^CHEMBL\d+$', t)
IsChemblId(t) ==
    /\ startswith(t, <<"C", "H", "E", "M", "B", "L">>)
    /\ isdigit(SubSeq(t, 7, Len(t)))

DetectStripped(identifier) ==
    IF IsCasNumber(identifier) THEN "name"
    ELSE IF isdigit(identifier) THEN "cid"
    ELSE IF IsChemblId(upper(identifier)) THEN "name"
    ELSE IF startswith(identifier, <<"I", "n", "C", "h", "I", "=">>)
         THEN "inchi"
    ELSE "name"

\* detect_identifier_type without "identifier = identifier.strip()"
detect_without_strip(identifier) == DetectStripped(identifier)

detect_identifier_type(identifier) == DetectStripped(Strip(identifier))

_create_cache_key(identifier, id_type) == <<id_type, lower(Strip(identifier))>>

\* PubChemAPI._load_cache: what a new instance starts with
_load_cache == IF cache_file.exists THEN cache_file.entries ELSE NoEntries

get_compounds(up, identifier, id_type) ==
    IF ~up THEN "failure"
    ELSE IF \/ id_type = "name" /\ lower(Strip(identifier)) = <<"a", "b">>
            \/ id_type = "cid" /\ Strip(identifier) = <<"1", "2">>
         THEN "compound"
    ELSE "none"

\* a query sent to PubChem, with its answer
Sent(answer, identifier, id_type) ==
    <<[identifier |-> identifier, id_type |-> id_type, answer |-> answer]>>

\* float(compound.molecular_weight) of the compound
MolecularWeight == Lit(46635, -2)

\* the result dictionary that lookup builds from the first compound
Result ==
    [molecular_weight |-> MolecularWeight, cid |-> 12, cached |-> FALSE,
     lookup_date |-> now]

\* what a lookup did: what it returned or raised, the in-memory cache after
\* it, whether _save_cache wrote the cache file, the queries it sent
Did(r, c, saved, sent) ==
    [ret |-> r, cache |-> c, saved |-> saved, queries |-> sent]

\* a query whose answer is stored in the cache when no compound was found
query_caching_not_found(c, answer, identifier, id_type, cache_key) ==
    CASE answer = "compound" ->
             Did(Result, (cache_key :> Result) @@ c, TRUE,
                 Sent(answer, identifier, id_type))
      [] answer = "none" ->
             Did(None, (cache_key :> Result) @@ c, TRUE,
                 Sent(answer, identifier, id_type))
      [] answer = "failure" ->
             Did(Raised("ChemicalLookupError"), c, FALSE,
                 Sent(answer, identifier, id_type))

\* lookup from "# Query PubChem API" on
Query(c, answer, identifier, id_type, cache_key) ==
    CASE answer = "compound" ->
             Did(Result, (cache_key :> Result) @@ c, TRUE,
                 Sent(answer, identifier, id_type))
      [] answer = "none" ->
             Did(None, c, FALSE, Sent(answer, identifier, id_type))
      [] answer = "failure" ->
             Did(Raised("ChemicalLookupError"), c, FALSE,
                 Sent(answer, identifier, id_type))

\* lookup from "# Check cache first" on
LookupKeyed(c, up, identifier, id_type, use_cache, cache_key) ==
    IF use_cache /\ cache_key \in DOMAIN c
    THEN Did([c[cache_key] EXCEPT !.cached = TRUE], c, FALSE, <<>>)
    ELSE Query(c, get_compounds(up, identifier, id_type), identifier,
               id_type, cache_key)

LookupTyped(c, up, identifier, id_type, use_cache) ==
    LookupKeyed(c, up, identifier, id_type, use_cache,
                _create_cache_key(identifier, id_type))

\* lookup that queries although the identifier is blank
lookup_without_blank_check(c, up, identifier, id_type, use_cache) ==
    LookupTyped(c, up, identifier,
                IF id_type = "None" THEN detect_identifier_type(identifier)
                ELSE id_type,
                use_cache)

\* PubChemAPI.lookup of the instance whose in-memory cache is c
lookup(c, up, identifier, id_type, use_cache) ==
    IF Strip(identifier) = <<>> THEN Did(None, c, FALSE, <<>>)
    ELSE LookupTyped(c, up, identifier,
                     IF id_type = "None"
                     THEN detect_identifier_type(identifier) ELSE id_type,
                     use_cache)

\* "if result:" after a lookup inside try ... except ChemicalLookupError
Found(o) == ~IsRaised(o.ret) /\ o.ret # None

\* re.sub(r'[^\w\-]', '', identifier)
IsWordOrHyphen(x) ==
    \/ x \in Digits \cup {"_", "-"}
    \/ LetterIndex(UpperCase, x) > 0
    \/ LetterIndex(LowerCase, x) > 0

cleaned(identifier) == SelectSeq(identifier, IsWordOrHyphen)

\* f"{id_type}:{identifier}"
Strategy(id_type, identifier) == <<id_type, identifier>>

\* the element of a set of one element: a value computed once, then used
Only(S) == CHOOSE x \in S : TRUE

\* robust_lookup returns (result, attempted_strategies); o is the last
\* lookup made, sent the queries of the lookups before it
Returns(o, result, attempted_strategies, sent) ==
    Did(<<result, attempted_strategies>>, o.cache, o.saved, sent \o o.queries)

\* robust_lookup at "return None, attempted_strategies", nothing found
NothingFound(c, attempted_strategies, sent) ==
    Did(<<None, attempted_strategies>>, c, FALSE, sent)

\* the result of strategy 3
Robust3(o, attempted_strategies, sent) ==
    IF Found(o) THEN Returns(o, o.ret, attempted_strategies, sent)
    ELSE NothingFound(o.cache, attempted_strategies, sent \o o.queries)

\* robust_lookup from "# Strategy 3" on
AfterStrategy2(c, ups, identifier, id_type, attempted_strategies, sent) ==
    IF isdigit(Without(identifier, "-")) /\ id_type # "cid"
    THEN Only({Robust3(o,
                       Append(attempted_strategies,
                              Strategy("cid", Without(identifier, "-"))),
                       sent) :
               o \in {lookup(c, ups[Len(sent) + 1],
                             Without(identifier, "-"), "cid", TRUE)}})
    ELSE NothingFound(c, attempted_strategies, sent)

\* the result of strategy 2
Robust2(o, ups, identifier, id_type, attempted_strategies, sent) ==
    IF Found(o) THEN Returns(o, o.ret, attempted_strategies, sent)
    ELSE AfterStrategy2(o.cache, ups, identifier, id_type,
                        attempted_strategies, sent \o o.queries)

\* robust_lookup from "# Strategy 2" on
AfterStrategy1(c, ups, identifier, id_type, attempted_strategies, sent) ==
    IF cleaned(identifier) # identifier
    THEN Only({Robust2(o, ups, identifier, id_type,
                       Append(attempted_strategies,
                              Strategy(id_type, cleaned(identifier))),
                       sent) :
               o \in {lookup(c, ups[Len(sent) + 1], cleaned(identifier),
                             id_type, TRUE)}})
    ELSE AfterStrategy2(c, ups, identifier, id_type, attempted_strategies,
                        sent)

\* strategy 1 that goes on to the later strategies although it found the
\* compound
robust1_trying_on(o, ups, identifier, id_type, attempted_strategies) ==
    AfterStrategy1(o.cache, ups, identifier, id_type, attempted_strategies,
                   o.queries)

\* the result of strategy 1
Robust1(o, ups, identifier, id_type, attempted_strategies) ==
    IF Found(o) THEN Returns(o, o.ret, attempted_strategies, <<>>)
    ELSE AfterStrategy1(o.cache, ups, identifier, id_type,
                        attempted_strategies, o.queries)

RobustTyped(c, ups, identifier, id_type) ==
    Only({Robust1(o, ups, identifier, id_type,
                  <<Strategy(id_type, identifier)>>) :
          o \in {lookup(c, ups[1], identifier, id_type, TRUE)}})

\* PubChemAPI.robust_lookup; ups[n] is whether PubChem is up at the n-th
\* query of the call.  A call sends at most two queries: an identifier that
\* strategy 3 applies to holds digits and hyphens only, and strategy 2 is
\* skipped for it.
robust_lookup(c, ups, identifier) ==
    Only({RobustTyped(c, ups, identifier, id_type) :
          id_type \in {detect_identifier_type(identifier)}})

(***************************************************************************)
(* gui_integration.py: the lookup widget of the stock screen.  Every       *)
(* widget creates its own PubChemAPI instance; an instance is named by a   *)
(* number, and the instances kept are those that the widget, a thread or a *)
(* scheduled callback holds.                                               *)
(***************************************************************************)
Held ==
    {th.api : th \in threads}
        \cup {after_queue[n].api : n \in 1..Len(after_queue)}

NewInstance == CHOOSE i \in 1..(Cardinality(Held) + 1) : i \notin Held

\* MolecularWeightLookupWidget.__init__
NewWidget(api) ==
    [api |-> api, lookup_button |-> "normal", status_label |-> "",
     current_result |-> None, original_query |-> None,
     info_window |-> FALSE]

\* show_stock_calculator builds the screen with a new lookup widget
WidgetCreated ==
    /\ mw_lookup' = NewWidget(NewInstance)
    /\ cache' = [i \in Held \cup {NewInstance} |->
                    IF i \in Held THEN cache[i] ELSE _load_cache]
    /\ UNCHANGED <<cache_file, queries, threads, after_queue>>

\* clear_frame destroys the widgets of the screen
WidgetDestroyed ==
    /\ mw_lookup' = NoWidget
    /\ cache' = [i \in Held |-> cache[i]]
    /\ UNCHANGED <<cache_file, queries, threads, after_queue>>

\* the stock screen, just opened, has its lookup widget
LookupOfScreen ==
    /\ cache = (IF current_mode = "stock" THEN <<NoEntries>> ELSE NoEntries)
    /\ cache_file = NoCacheFile
    /\ queries = <<>>
    /\ mw_lookup = (IF current_mode = "stock" THEN NewWidget(1) ELSE NoWidget)
    /\ threads = {}
    /\ after_queue = <<>>


(***************************************************************************)
(* src/main.py: the two calculator screens of DrugCalculatorApp.           *)
(***************************************************************************)
showerror(title, message) ==
    [kind |-> "showerror", title |-> title, message |-> message]
showwarning(title, message) ==
    [kind |-> "showwarning", title |-> title, message |-> message]
\* The window carries the values its text is formatted from.  The volumes
\* are the calculator's own: convert_to_readable_unit, which main.py imports
\* from formatters and applies to them, is not defined in formatters.py.
show_results_window(title, drug_name, content) ==
    [kind |-> "results", title |-> title, drug_name |-> drug_name,
     content |-> content]

\* what a Calculate handler leaves behind: the dialog it opened, the
\* calculator invocation it made and the history store
Rejected(d, h) == [dialog |-> d, call |-> NoCall, ret |-> NoCall, history |-> h]

\* a matrix whose (nM, M) entry is the factor of (µM, M)
conversion_factors_with_typo ==
    [key \in {"M", "mM", "µM", "nM"} \X {"M", "mM", "µM", "nM"} |->
        CASE key = <<"M", "M">>   -> Lit(1, 0)
          [] key = <<"M", "mM">>  -> Lit(1000, 0)
          [] key = <<"M", "µM">>  -> Lit(1000000, 0)
          [] key = <<"M", "nM">>  -> Lit(1000000000, 0)
          [] key = <<"mM", "M">>  -> Lit(1, -3)
          [] key = <<"mM", "mM">> -> Lit(1, 0)
          [] key = <<"mM", "µM">> -> Lit(1000, 0)
          [] key = <<"mM", "nM">> -> Lit(1000000, 0)
          [] key = <<"µM", "M">>  -> Lit(1, -6)
          [] key = <<"µM", "mM">> -> Lit(1, -3)
          [] key = <<"µM", "µM">> -> Lit(1, 0)
          [] key = <<"µM", "nM">> -> Lit(1000, 0)
          [] key = <<"nM", "M">>  -> Lit(1, -6)
          [] key = <<"nM", "mM">> -> Lit(1, -6)
          [] key = <<"nM", "µM">> -> Lit(1, -3)
          [] key = <<"nM", "nM">> -> Lit(1, 0)]

\* the matrix of calculate_dilution, keyed by (stock unit, target unit)
conversion_factors ==
    [key \in {"M", "mM", "µM", "nM"} \X {"M", "mM", "µM", "nM"} |->
        CASE key = <<"M", "M">>   -> Lit(1, 0)
          [] key = <<"M", "mM">>  -> Lit(1000, 0)
          [] key = <<"M", "µM">>  -> Lit(1000000, 0)
          [] key = <<"M", "nM">>  -> Lit(1000000000, 0)
          [] key = <<"mM", "M">>  -> Lit(1, -3)
          [] key = <<"mM", "mM">> -> Lit(1, 0)
          [] key = <<"mM", "µM">> -> Lit(1000, 0)
          [] key = <<"mM", "nM">> -> Lit(1000000, 0)
          [] key = <<"µM", "M">>  -> Lit(1, -6)
          [] key = <<"µM", "mM">> -> Lit(1, -3)
          [] key = <<"µM", "µM">> -> Lit(1, 0)
          [] key = <<"µM", "nM">> -> Lit(1000, 0)
          [] key = <<"nM", "M">>  -> Lit(1, -9)
          [] key = <<"nM", "mM">> -> Lit(1, -6)
          [] key = <<"nM", "µM">> -> Lit(1, -3)
          [] key = <<"nM", "nM">> -> Lit(1, 0)]

\* DrugCalculatorApp.calculate_stock, steps 8 and 9: the result c.ret of the
\* calculator invocation c is shown and saved
StockOutcome(h, drug_name, solvent, c, result) ==
    IF IsRaised(result)
    THEN [dialog |-> showerror("Calculation Error",
                               <<"An unexpected error occurred: ",
                                 result.raised>>),
          call |-> c, ret |-> result, history |-> h]
    ELSE [dialog |-> show_results_window(
                         "Stock Solution Preparation", drug_name,
                         [mw |-> c.molecular_weight,
                          conc |-> c.target_concentration,
                          conc_unit |-> c.concentration_unit,
                          vol |-> c.target_volume, vol_unit |-> c.volume_unit,
                          solvent |-> solvent, weigh_mg |-> result.mass_mg]),
          call |-> c, ret |-> result,
          history |-> add_calculation(
                          h, "Stock from Powder", drug_name,
                          [molecular_weight |-> c.molecular_weight,
                           target_concentration |-> c.target_concentration,
                           target_volume |-> c.target_volume,
                           concentration_unit |-> c.concentration_unit,
                           volume_unit |-> c.volume_unit],
                          result, solvent)]

\* DrugCalculatorApp.calculate_stock, steps 6 and 7: the fields are valid
StockCalculation(h, drug_name, mw, conc, vol, conc_unit, vol_unit, solvent) ==
    StockOutcome(h, drug_name, solvent,
                 [fn |-> "calculate_stock_from_powder",
                  molecular_weight |-> mw, target_concentration |-> conc,
                  target_volume |-> vol, concentration_unit |-> conc_unit,
                  volume_unit |-> vol_unit],
                 calculate_stock_from_powder(mw, conc, vol, conc_unit,
                                             vol_unit))

\* one of the steps 3 to 5 of calculate_stock on a field: the box the step
\* opens before it returns, NoDialog when the field passes the step.  A
\* ValueError of float() is caught by the handler's except clause.
FieldStep(label, is_valid, value, positive_message) ==
    IF ~is_valid[1] THEN showerror("Input Error", <<label, is_valid[3]>>)
    ELSE IF ~value.ok
    THEN showerror("Calculation Error",
                   <<"An unexpected error occurred: ", "ValueError">>)
    ELSE IF FNonPositive(value.v)
    THEN showerror("Input Error", <<positive_message>>)
    ELSE NoDialog

\* steps 3, 4 and 5 in their order
StockFieldSteps(mw_input, conc_input, vol_input) ==
    <<FieldStep("Molecular Weight: ", validate_decimal_input(mw_input),
                PyFloat(mw_input), "Molecular weight must be positive"),
      FieldStep("Target Concentration: ", validate_decimal_input(conc_input),
                PyFloat(conc_input), "Concentration must be positive"),
      FieldStep("Target Volume: ", validate_decimal_input(vol_input),
                PyFloat(vol_input), "Volume must be positive")>>

\* the first step that opens a box returns from the handler
FirstBox(steps) ==
    steps[CHOOSE i \in 1..Len(steps) :
              steps[i] # NoDialog /\ \A j \in 1..(i - 1) : steps[j] = NoDialog]

StockChecked(h, e, u, steps) ==
    IF \E i \in 1..Len(steps) : steps[i] # NoDialog
    THEN Rejected(FirstBox(steps), h)
    ELSE StockCalculation(h, Strip(e.drug_name_var),
                          PyFloat(Strip(e.mw_var)).v,
                          PyFloat(Strip(e.conc_var)).v,
                          PyFloat(Strip(e.vol_var)).v,
                          u.conc_unit_var, u.vol_unit_var,
                          Strip(e.solvent_var))

\* DrugCalculatorApp.calculate_stock
StockHandler(h, e, u) ==
    IF Strip(e.drug_name_var) = <<>>
    THEN Rejected(showerror("Input Error", <<"Please enter a drug name">>), h)
    ELSE StockChecked(h, e, u,
                      StockFieldSteps(Strip(e.mw_var), Strip(e.conc_var),
                                      Strip(e.vol_var)))

\* DrugCalculatorApp.calculate_dilution, from the result of the calculator
\* invocation c on
DilutionOutcome(h, drug_name, solvent, target_conc, target_conc_unit, c, result) ==
    IF IsRaised(result)
    THEN [dialog |-> showerror("Calculation Error",
                               <<"An error occurred: ", result.raised>>),
          call |-> c, ret |-> result, history |-> h]
    ELSE IF result.error
    THEN [dialog |-> showerror("Calculation Error", <<result.message>>),
          call |-> c, ret |-> result, history |-> h]
    ELSE [dialog |-> show_results_window(
                         "Working Solution Preparation", drug_name,
                         [stock_conc |-> c.stock_concentration,
                          stock_conc_unit |-> c.concentration_unit,
                          target_conc |-> target_conc,
                          target_conc_unit |-> target_conc_unit,
                          target_vol |-> c.target_volume,
                          vol_unit |-> c.volume_unit,
                          dilution_factor |-> result.dilution_factor,
                          solvent |-> solvent,
                          take |-> result.stock_volume,
                          add |-> result.solvent_volume]),
          call |-> c, ret |-> result,
          history |-> add_calculation(
                          h, "Working from Stock", drug_name,
                          [stock_concentration |-> c.stock_concentration,
                           target_concentration |-> target_conc,
                           target_volume |-> c.target_volume,
                           stock_concentration_unit |-> c.concentration_unit,
                           target_concentration_unit |-> target_conc_unit,
                           volume_unit |-> c.volume_unit],
                          result, solvent)]

\* DrugCalculatorApp.calculate_dilution, the call of the calculator
DilutionCalculation(h, drug_name, stock_conc, target_conc, target_conc_in_stock_units, target_vol, stock_conc_unit, target_conc_unit, vol_unit, solvent) ==
    DilutionOutcome(h, drug_name, solvent, target_conc, target_conc_unit,
                    [fn |-> "calculate_dilution",
                     stock_concentration |-> stock_conc,
                     target_concentration |-> target_conc_in_stock_units,
                     target_volume |-> target_vol,
                     concentration_unit |-> stock_conc_unit,
                     volume_unit |-> vol_unit],
                    calculate_dilution(stock_conc, target_conc_in_stock_units,
                                       target_vol, stock_conc_unit, vol_unit))

\* the target concentration in the unit of the stock; conversion_key is
\* (stock unit, target unit)
target_conc_in_stock_units(target_conc, conversion_key) ==
    FDiv(target_conc, conversion_factors[conversion_key])

\* DrugCalculatorApp.calculate_dilution, from the conversion of the target
\* concentration on; is_valid is the answer of validate_inputs
DilutionConverted(h, e, u, stock_conc, target_conc, target_vol, is_valid) ==
    IF <<u.stock_conc_unit_var, u.target_conc_unit_var>>
           \notin DOMAIN conversion_factors
    THEN Rejected(showerror("Unit Error", <<"Unsupported unit combination">>),
                  h)
    ELSE IF ~is_valid[1]
    THEN Rejected(showerror("Input Error", <<is_valid[2]>>), h)
    ELSE IF FNonPositive(target_conc)
    THEN Rejected(showerror("Input Error",
                            <<"Target concentration must be positive">>), h)
    ELSE IF Strip(e.drug_name_var) = <<>>
    THEN Rejected(showwarning("Missing Input",
                              <<"Please enter a drug name">>), h)
    ELSE DilutionCalculation(
             h, Strip(e.drug_name_var), stock_conc, target_conc,
             target_conc_in_stock_units(
                 target_conc,
                 <<u.stock_conc_unit_var, u.target_conc_unit_var>>),
             target_vol, u.stock_conc_unit_var, u.target_conc_unit_var,
             u.vol_unit_var, Strip(e.solvent_var))

\* DrugCalculatorApp.calculate_dilution, after the three float() calls
DilutionParsed(h, e, u, stock_conc, target_conc, target_vol) ==
    IF ~stock_conc.ok \/ ~target_conc.ok \/ ~target_vol.ok
    THEN Rejected(showerror("Input Error",
                            <<"Please enter valid numerical values">>), h)
    ELSE DilutionConverted(h, e, u, stock_conc.v, target_conc.v, target_vol.v,
                           validate_inputs(None, stock_conc.v, target_vol.v))

\* DrugCalculatorApp.calculate_dilution
DilutionHandler(h, e, u) ==
    DilutionParsed(h, e, u, PyFloat(e.stock_conc_var),
                   PyFloat(e.target_conc_var), PyFloat(e.target_vol_var))

\* the handler's outcome o becomes the state
Leaves(o) ==
    /\ dialog' = o.dialog
    /\ call' = o.call
    /\ ret' = o.ret
    /\ history' = o.history
    /\ damage' = IF o.history = <<>> THEN damage ELSE "none"

(***************************************************************************)
(* The calculator screens.  A behaviour starts on a screen whose fields    *)
(* the user has filled in; the texts are drawn from the sets below, which  *)
(* hold an empty field, a comma decimal, a text that is no number, a zero  *)
(* or negative number and valid numbers.                                   *)
(***************************************************************************)
MaxHistory == 1

T_empty == <<>>
T_comma == <<"5", ",", "2">>
T_abc   == <<"a", "b", "c">>
T_nan   == <<"n", "a", "n">>
T_zero  == <<"0">>
T_neg   == <<"-", "1">>
T_1     == <<"1">>
T_10    == <<"1", "0">>
T_1000  == <<"1", "0", "0", "0">>
T_milli == <<"0", ".", "0", "0", "1">>
T_mw    == <<"4", "6", "6", ".", "3", "5">>

NameAndSolvent == {<<T_empty, T_empty>>, <<<<"A">>, T_empty>>,
                   <<<<"A">>, <<"W">>>>}

StockEntries ==
    {[drug_name_var |-> ns[1], mw_var |-> mw, conc_var |-> c, vol_var |-> v,
      solvent_var |-> ns[2]] :
        ns \in NameAndSolvent,
        mw \in {T_empty, T_mw, T_comma, T_zero, T_nan},
        c  \in {T_empty, T_10, T_comma, T_neg, T_abc},
        v  \in {T_empty, T_1, T_comma, T_zero}}

StockUnits ==
    [conc_unit_var : {"M", "mM", "µM", "nM"}, vol_unit_var : {"L", "mL", "µL"}]

DilutionEntries ==
    {[drug_name_var |-> ns[1], stock_conc_var |-> sc, target_conc_var |-> tc,
      target_vol_var |-> v, solvent_var |-> ns[2]] :
        ns \in {<<T_empty, T_empty>>, <<<<"A">>, <<"W">>>>},
        sc \in {T_empty, T_1000, T_10, T_comma, T_neg},
        tc \in {T_empty, T_milli, T_1, T_comma, T_zero},
        v  \in {T_empty, T_10, T_zero}}

DilutionUnits ==
    [stock_conc_unit_var : {"M", "mM", "µM", "nM"},
     target_conc_unit_var : {"M", "mM", "µM", "nM"},
     vol_unit_var : {"mL", "µL"}]

InitScreen ==
    /\ current_mode \in {"stock", "dilution"}
    /\ entries \in (IF current_mode = "stock" THEN StockEntries
                    ELSE DilutionEntries)
    /\ units \in (IF current_mode = "stock" THEN StockUnits ELSE DilutionUnits)
    /\ dialog = NoDialog
    /\ history = <<>>
    /\ damage = "none"
    /\ backups = NoBackups
    /\ now = 0
    /\ call = NoCall
    /\ ret = NoCall
    /\ LookupOfScreen

\* the Calculate button of the stock screen
calculate_stock ==
    /\ current_mode = "stock"
    /\ dialog = NoDialog
    /\ Len(load_history) < MaxHistory
    /\ Leaves(StockHandler(load_history, entries, units))
    /\ UNCHANGED <<current_mode, entries, units, backups, now>>
    /\ UNCHANGED pubchem_vars

\* the Calculate button of the dilution screen
calculate_dilution_clicked ==
    /\ current_mode = "dilution"
    /\ dialog = NoDialog
    /\ Len(load_history) < MaxHistory
    /\ Leaves(DilutionHandler(load_history, entries, units))
    /\ UNCHANGED <<current_mode, entries, units, backups, now>>
    /\ UNCHANGED pubchem_vars

\* the message box or the results window is closed
CloseDialog ==
    /\ dialog # NoDialog
    /\ dialog' = NoDialog
    /\ UNCHANGED <<current_mode, entries, units, history, call, ret,
                   damage, backups, now>>
    /\ UNCHANGED pubchem_vars

\* the Clear button: every entry of the screen but no unit is reset
clear_inputs ==
    /\ current_mode \in {"stock", "dilution"}
    /\ dialog = NoDialog
    /\ entries' = [f \in DOMAIN entries |-> <<>>]
    /\ UNCHANGED <<current_mode, units, dialog, history, call, ret,
                   damage, backups, now>>
    /\ UNCHANGED pubchem_vars

\* Back to Menu
show_welcome_screen ==
    /\ current_mode \in {"stock", "dilution", "history"}
    /\ dialog = NoDialog
    /\ current_mode' = "None"
    /\ entries' = NoEntries
    /\ units' = NoEntries
    /\ UNCHANGED <<dialog, history, call, ret, damage, backups, now>>
    /\ WidgetDestroyed

show_stock_calculator ==
    /\ current_mode = "None"
    /\ dialog = NoDialog
    /\ current_mode' = "stock"
    /\ entries' = [drug_name_var |-> <<>>, mw_var |-> <<>>, conc_var |-> <<>>,
                   vol_var |-> <<>>, solvent_var |-> <<>>]
    /\ units' = [conc_unit_var |-> "mM", vol_unit_var |-> "µL"]
    /\ UNCHANGED <<dialog, history, call, ret, damage, backups, now>>
    /\ WidgetCreated

show_dilution_calculator ==
    /\ current_mode = "None"
    /\ dialog = NoDialog
    /\ current_mode' = "dilution"
    /\ entries' = [drug_name_var |-> <<>>, stock_conc_var |-> <<>>,
                   target_conc_var |-> <<>>, target_vol_var |-> <<>>,
                   solvent_var |-> <<>>]
    /\ units' = [stock_conc_unit_var |-> "mM", target_conc_unit_var |-> "µM",
                 vol_unit_var |-> "µL"]
    /\ UNCHANGED <<dialog, history, call, ret, damage, backups, now>>
    /\ WidgetDestroyed

NextScreen ==
    \/ calculate_stock
    \/ calculate_dilution_clicked
    \/ CloseDialog
    \/ clear_inputs
    \/ show_welcome_screen
    \/ show_stock_calculator
    \/ show_dilution_calculator

SpecScreen == InitScreen /\ [][NextScreen]_vars

\* the handler of the screen has just run: its box or window is still open
HandlerRan(mode) == current_mode = mode /\ dialog # NoDialog

\* the number a plain decimal text t (digits with at most one period)
\* denotes is DecimalDigits(t) / 10^DecimalPlaces(t)
DecimalDigits(t) ==
    BigFromDigits(DigitsOf(IntPart(Strip(t))) \o DigitsOf(FracPart(Strip(t))))
DecimalPlaces(t) == Len(DigitsOf(FracPart(Strip(t))))

\* -1, 0, 1 as the concentration typed as t in the unit tu is below, equal
\* to or above the concentration typed as s in the unit su
PhysicalCmp(t, tu, s, su) ==
    BigCmp(BigMul(DecimalDigits(t),
                  BigPow10(DecimalPlaces(s) + MolarExp10[su])),
           BigMul(DecimalDigits(s),
                  BigPow10(DecimalPlaces(t) + MolarExp10[tu])))

\* C6: in the dilution screen the value passed to calculate_dilution is the
\* target concentration times scale(target unit) / scale(stock unit), to
\* relative tolerance 1e-9, and the verdict depends only on the physical
\* concentrations: the calculator answers infeasible exactly when the target
\* concentration as typed, in molar, exceeds the stock concentration as
\* typed, in molar.
C6_UnitHarmonized ==
    (HandlerRan("dilution") /\ call.fn = "calculate_dilution") =>
        /\ CloseRel(ExMul(call.target_concentration,
                          ExPow10(MolarExp10[units.target_conc_unit_var])),
                    ExMul(PyFloat(entries.target_conc_var).v,
                          ExPow10(MolarExp10[units.stock_conc_unit_var])))
        /\ (~IsRaised(ret) /\ ret.error) <=>
               PhysicalCmp(entries.target_conc_var, units.target_conc_unit_var,
                           entries.stock_conc_var, units.stock_conc_unit_var)
                   > 0

(***************************************************************************)
(* The conversion of the dilution screen alone: a value is converted from  *)
(* the target unit to the stock unit and back.                             *)
(***************************************************************************)
ConvertCalls ==
    [fn : {"convert"}, x : CalcValues,
     stock_unit : {"M", "mM", "µM", "nM"},
     target_unit : {"M", "mM", "µM", "nM"}]

InitConvert ==
    /\ Idle
    /\ call \in ConvertCalls
    /\ ret = Pending

Convert ==
    /\ call.fn = "convert"
    /\ ret = Pending
    /\ ret' = [there |-> target_conc_in_stock_units(
                             call.x, <<call.stock_unit, call.target_unit>>)]
    /\ UNCHANGED <<current_mode, entries, units, dialog, history, call,
                   damage, backups, now>>
    /\ UNCHANGED pubchem_vars

ConvertBack ==
    /\ call.fn = "convert"
    /\ DOMAIN ret = {"there"}
    /\ ret' = [there |-> ret.there,
               back |-> target_conc_in_stock_units(
                            ret.there, <<call.target_unit, call.stock_unit>>)]
    /\ UNCHANGED <<current_mode, entries, units, dialog, history, call,
                   damage, backups, now>>
    /\ UNCHANGED pubchem_vars

NextConvert == Convert \/ ConvertBack

SpecConvert == InitConvert /\ [][NextConvert]_vars

\* C8: for every ordered pair (a, b) of concentration units the matrix has
\* the entries (a, b) and (b, a), the product of the two factors is the
\* float 1.0, and a value converted from b to a and back differs from the
\* original by at most the relative tolerance 1e-9.
C8_RoundTrip ==
    call.fn = "convert" =>
        /\ <<call.stock_unit, call.target_unit>> \in DOMAIN conversion_factors
        /\ <<call.target_unit, call.stock_unit>> \in DOMAIN conversion_factors
        /\ FEq(FMul(conversion_factors[<<call.stock_unit, call.target_unit>>],
                    conversion_factors[<<call.target_unit, call.stock_unit>>]),
               Lit(1, 0))
        /\ "back" \in DOMAIN ret => CloseRel(ret.back, call.x)

C8_Witness ==
    /\ call.fn = "convert"
    /\ call.stock_unit = "nM" /\ call.target_unit = "M"
    /\ "back" \in DOMAIN ret
    /\ FEq(ret.there, FMul(call.x, Lit(1000000000, 0)))

(***************************************************************************)
(* The screens with one numeric field holding an arbitrary text: every     *)
(* text of at most MaxLen characters of InputAlphabet, and a few texts     *)
(* Python's float() reads as no finite number.  The other fields hold      *)
(* valid numbers and the dropdowns their defaults.                         *)
(***************************************************************************)
MaxLen == 3

InputAlphabet == {"5", "0", ",", ".", "-", " "}

T_inf == <<"i", "n", "f">>

InputTexts ==
    UNION {[1..n -> InputAlphabet] : n \in 0..MaxLen}
        \cup {T_comma, T_abc, T_nan, T_inf}

NumericFields(mode) ==
    CASE mode = "stock" -> {"mw_var", "conc_var", "vol_var"}
      [] mode = "dilution" ->
             {"stock_conc_var", "target_conc_var", "target_vol_var"}
      [] OTHER -> {}

FilledStock ==
    [drug_name_var |-> <<"A">>, mw_var |-> T_mw, conc_var |-> T_10,
     vol_var |-> T_1, solvent_var |-> <<>>]

FilledDilution ==
    [drug_name_var |-> <<"A">>, stock_conc_var |-> T_10,
     target_conc_var |-> T_1, target_vol_var |-> T_10, solvent_var |-> <<>>]

InitInput ==
    /\ current_mode \in {"stock", "dilution"}
    /\ entries \in
           {[(IF current_mode = "stock" THEN FilledStock ELSE FilledDilution)
                 EXCEPT ![f] = t] :
                f \in NumericFields(current_mode), t \in InputTexts}
    /\ units = (IF current_mode = "stock"
                THEN [conc_unit_var |-> "mM", vol_unit_var |-> "µL"]
                ELSE [stock_conc_unit_var |-> "mM",
                      target_conc_unit_var |-> "µM", vol_unit_var |-> "µL"])
    /\ dialog = NoDialog
    /\ history = <<>>
    /\ damage = "none"
    /\ backups = NoBackups
    /\ now = 0
    /\ call = NoCall
    /\ ret = NoCall
    /\ LookupOfScreen

SpecInput == InitInput /\ [][NextScreen]_vars

CommaMessage == "Please use period (.) for decimals, not comma (,)"

\* C9: for every text with a comma in a numeric field, the validator answers
\* invalid with the use-a-period message, float() does not read the text as
\* a number, and the Calculate handler of the screen calls no calculator,
\* shows no result and saves no record.
C9_CommaRejected ==
    \A f \in NumericFields(current_mode) :
        Contains(entries[f], ",") =>
            /\ validate_decimal_input(entries[f])
                   = <<FALSE, Strip(entries[f]), CommaMessage>>
            /\ ~PyFloat(entries[f]).ok
            /\ call = NoCall
            /\ history = <<>>
            /\ dialog.kind \in {"none", "showerror"}

C9_Witness ==
    /\ HandlerRan("stock")
    /\ entries.mw_var = T_comma
    /\ dialog = showerror("Input Error", <<"Molecular Weight: ", CommaMessage>>)

PositiveReal(x) == IsFin(x) /\ FGt(x, FZero(0))

\* C10: the validator answers Empty for an empty field and NotANumber for
\* a text float() does not read, and every number that passes the validation
\* of a screen and reaches a calculator is a positive real.
C10_ValidatedInput ==
    /\ \A f \in NumericFields(current_mode) :
           /\ Strip(entries[f]) = <<>> =>
                  validate_decimal_input(entries[f])
                      = <<FALSE, <<>>, "Please enter a value">>
           /\ (Strip(entries[f]) # <<>> /\ ~Contains(entries[f], ",")
                   /\ ~PyFloat(entries[f]).ok) =>
                  validate_decimal_input(entries[f])
                      = <<FALSE, Strip(entries[f]),
                          "Please enter a valid number">>
    /\ call.fn = "calculate_stock_from_powder" =>
           /\ PositiveReal(call.molecular_weight)
           /\ PositiveReal(call.target_concentration)
           /\ PositiveReal(call.target_volume)
    /\ call.fn = "calculate_dilution" =>
           /\ PositiveReal(call.stock_concentration)
           /\ PositiveReal(call.target_concentration)
           /\ PositiveReal(call.target_volume)

(***************************************************************************)
(* format_number alone: a value is formatted, and the text is parsed back  *)
(* by float() and formatted again.  The values are decimal literals of a   *)
(* few mantissas at every scale down to 10^-MaxShift, of both signs, and   *)
(* zero, nan and inf.                                                      *)
(***************************************************************************)
MaxShift == 14

FormatMantissas ==
    {1, 15, 123, 125, 25789, 46635, 499123, 5234567, 9996, 99995}

FormatValues ==
    {Lit(n, -k) : n \in FormatMantissas, k \in 0..MaxShift}
        \cup {FNeg(Lit(n, -k)) : n \in FormatMantissas, k \in 0..MaxShift}
        \cup {FZero(0), FNaN, FInf(0)}

InitFormat ==
    /\ Idle
    /\ call \in [fn : {"format_number"}, value : FormatValues]
    /\ ret = Pending

Format ==
    /\ call.fn = "format_number"
    /\ ret = Pending
    /\ ret' = [text |-> format_number(call.value)]
    /\ UNCHANGED <<current_mode, entries, units, dialog, history, call,
                   damage, backups, now>>
    /\ UNCHANGED pubchem_vars

Reformat ==
    /\ call.fn = "format_number"
    /\ DOMAIN ret = {"text"}
    /\ ret' = [text |-> ret.text,
               again |-> format_number(PyFloat(ret.text).v)]
    /\ UNCHANGED <<current_mode, entries, units, dialog, history, call,
                   damage, backups, now>>
    /\ UNCHANGED pubchem_vars

NextFormat == Format \/ Reformat

SpecFormat == InitFormat /\ [][NextFormat]_vars

FormatDone == call.fn = "format_number" /\ ret # Pending

\* a decimal text t, with or without an exponent, denotes
\* (-1)^SignOf(t) * TextDigits(t) * 10^TextExp10(t)
TextMantissa(t) ==
    IF FirstOf(t, {"e"}) = 0 THEN Unsigned(t)
    ELSE Unsigned(SubSeq(t, 1, FirstOf(t, {"e"}) - 1))
TextExponent(t) ==
    IF FirstOf(t, {"e"}) = 0 THEN 0
    ELSE ExponentVal(SubSeq(t, FirstOf(t, {"e"}) + 1, Len(t)))
TextDigits(t) ==
    BigFromDigits(DigitsOf(IntPart(TextMantissa(t)))
                      \o DigitsOf(FracPart(TextMantissa(t))))
TextExp10(t) == TextExponent(t) - Len(DigitsOf(FracPart(TextMantissa(t))))

\* |x| < n / 10^k
MagnitudeBelow(x, n, k) ==
    ExCmpAbs(Ex(0, BigMul(x.m, BigPow10(k)), x.e), ExNat(n)) < 0

\* the decimal place of the last digit the precision policy keeps for x
LastPlace(x) ==
    IF MagnitudeBelow(x, 1, 2) THEN DecimalExponent(x, -3) - 3
    ELSE IF MagnitudeBelow(x, 10, 0) THEN -2
    ELSE IF MagnitudeBelow(x, 100, 0) THEN -1
    ELSE 0

\* the number t denotes is |x| rounded at the place q <= 0: it has no
\* digit below 10^q and differs from |x| by at most half of 10^q
RoundedAt(t, x, q) ==
    /\ TextExp10(t) >= q
    /\ ExCmp(ExMul(ExNat(2),
                   ExAbs(ExSub(Ex(0, BigMul(TextDigits(t),
                                            BigPow10(TextExp10(t) - q)), 0),
                               Ex(0, BigMul(x.m, BigPow10(-q)), x.e)))),
             ExNat(1)) <= 0

\* C11: for every non-zero finite value, negative ones included, the text
\* of format_number is a number of the value's sign that is the value
\* rounded to 4 significant figures below 0.01, to 2 decimal places below
\* 10, to 1 decimal place below 100 and to 0 decimal places from 100 on.
C11_PrecisionBands ==
    (FormatDone /\ IsFin(call.value) /\ ~IsZero(call.value)) =>
        /\ PyFloat(ret.text).ok
        /\ SignOf(ret.text) = call.value.s
        /\ RoundedAt(ret.text, call.value, LastPlace(call.value))

\* C12: format_number(499.123) is "499", format_number(5.234567) is "5.23",
\* format_number(25.789) is "25.8" and format_number(0.00123) is "0.0012".
C12_Examples ==
    FormatDone =>
        /\ call.value = Lit(499123, -3) => ret.text = <<"4", "9", "9">>
        /\ call.value = Lit(5234567, -6) => ret.text = <<"5", ".", "2", "3">>
        /\ call.value = Lit(25789, -3) => ret.text = <<"2", "5", ".", "8">>
        /\ call.value = Lit(123, -5) =>
               ret.text = <<"0", ".", "0", "0", "1", "2">>

\* C13: the text of format_number, parsed back to a number and formatted
\* again, is the same text.
C13_Idempotent ==
    (call.fn = "format_number" /\ "again" \in DOMAIN ret) =>
        ret.again = ret.text

(***************************************************************************)
(* The history store and the history screen.  Records are appended, the    *)
(* list and the count are read, the store is cleared, by a direct call and *)
(* by the Clear History button; the clock advances, and the history file   *)
(* can be damaged from outside.  clear_history writes two files: the       *)
(* state between the two writes is a state of the program.  Writing a file *)
(* is taken to succeed.                                                    *)
(***************************************************************************)
MaxRecords == 2
MaxClock == 1

InitHistory ==
    /\ Idle
    /\ call = NoCall
    /\ ret = NoCall

\* clear_history has written its backup and not yet the history file
Clearing == call.fn = "clear_history" /\ ret = Pending

Tick ==
    /\ now < MaxClock
    /\ now' = now + 1
    /\ UNCHANGED <<current_mode, entries, units, dialog, history, damage,
                   backups, call, ret>>
    /\ UNCHANGED pubchem_vars

\* the bytes of the history file are changed from outside: they hold no
\* records any more
DamageFile ==
    /\ ~Clearing
    /\ damage = "none"
    /\ damage' \in {"malformed", "undecodable"}
    /\ history' = <<>>
    /\ UNCHANGED <<current_mode, entries, units, dialog, backups, now, call,
                   ret>>
    /\ UNCHANGED pubchem_vars

AddCalculation ==
    /\ ~Clearing
    /\ Len(history) < MaxRecords
    /\ call' = [fn |-> "add_calculation"]
    /\ IF load_raises
       THEN /\ ret' = Raised("IOError")
            /\ UNCHANGED <<history, damage>>
       ELSE /\ history' = add_calculation(load_history, "Stock from Powder",
                                          <<"A">>, <<>>, <<>>, <<>>)
            /\ damage' = "none"
            /\ ret' = None
    /\ UNCHANGED <<current_mode, entries, units, dialog, backups, now>>
    /\ UNCHANGED pubchem_vars

GetAllCalculations ==
    /\ ~Clearing
    /\ call' = [fn |-> "get_all_calculations"]
    /\ ret' = IF load_raises THEN Raised("IOError")
              ELSE [value |-> get_all_calculations]
    /\ UNCHANGED <<current_mode, entries, units, dialog, history, damage,
                   backups, now>>
    /\ UNCHANGED pubchem_vars

GetCalculationCount ==
    /\ ~Clearing
    /\ call' = [fn |-> "get_calculation_count"]
    /\ ret' = IF load_raises THEN Raised("IOError")
              ELSE [value |-> get_calculation_count]
    /\ UNCHANGED <<current_mode, entries, units, dialog, history, damage,
                   backups, now>>
    /\ UNCHANGED pubchem_vars

\* clear_history up to the backup
ClearHistoryBackup ==
    /\ ~Clearing
    /\ call' = [fn |-> "clear_history"]
    /\ IF load_raises
       THEN /\ ret' = Raised("IOError")
            /\ UNCHANGED backups
       ELSE /\ ret' = Pending
            /\ backups' = backup_written(load_history)
    /\ UNCHANGED <<current_mode, entries, units, dialog, history, damage,
                   now>>
    /\ UNCHANGED pubchem_vars

\* clear_history from self._save_history([]) on
ClearHistorySave ==
    /\ Clearing
    /\ history' = <<>>
    /\ damage' = "none"
    /\ ret' = None
    /\ UNCHANGED <<current_mode, entries, units, dialog, backups, now, call>>
    /\ UNCHANGED pubchem_vars

\* the History button of the menu
show_history ==
    /\ ~Clearing
    /\ current_mode = "None"
    /\ dialog = NoDialog
    /\ current_mode' = "history"
    /\ UNCHANGED <<entries, units, dialog, history, damage, backups, now,
                   call, ret>>
    /\ WidgetDestroyed

\* the Clear History button of the history screen, the question answered
\* with yes: DrugCalculatorApp.clear_history calls self.history.clear_all()
clear_history_clicked ==
    /\ ~Clearing
    /\ current_mode = "history"
    /\ dialog = NoDialog
    /\ call' = [fn |-> "clear_all"]
    /\ IF "clear_all" \in CalculationHistory
       THEN /\ backups' = backup_written(load_history)
            /\ history' = <<>>
            /\ damage' = "none"
            /\ ret' = None
            /\ dialog' = [kind |-> "showinfo", title |-> "History Cleared"]
       ELSE /\ ret' = Raised("AttributeError")
            /\ UNCHANGED <<backups, history, damage, dialog>>
    /\ UNCHANGED <<current_mode, entries, units, now>>
    /\ UNCHANGED pubchem_vars

NextHistory ==
    \/ Tick
    \/ DamageFile
    \/ AddCalculation
    \/ GetAllCalculations
    \/ GetCalculationCount
    \/ ClearHistoryBackup
    \/ ClearHistorySave
    \/ show_history
    \/ show_welcome_screen
    \/ clear_history_clicked

SpecHistory == InitHistory /\ [][NextHistory]_vars

\* the record that the add_calculation call just made has written
NewRecord ==
    [timestamp |-> now, calculation_type |-> "Stock from Powder",
     drug_name |-> <<"A">>, solvent |-> <<>>, inputs |-> <<>>,
     results |-> <<>>]

\* the records of the history file, newest first
NewestFirst(h) == [i \in 1..Len(h) |-> h[Len(h) + 1 - i]]

\* C14: on an undamaged store each add_calculation puts the new record in
\* front of what get_all_calculations returned before and behind nothing,
\* raises get_calculation_count by one, and the list returned always is the
\* records of the file, each once, newest first, as many as the count says.
C14_AppendNewestFirst ==
    [][(AddCalculation /\ damage = "none") =>
           /\ get_all_calculations' = <<NewRecord'>> \o get_all_calculations
           /\ get_calculation_count' = get_calculation_count + 1
           /\ get_calculation_count' = Len(get_all_calculations')
           /\ get_all_calculations' = NewestFirst(history')]_vars

C14_Witness ==
    /\ call.fn = "add_calculation"
    /\ ret = None
    /\ damage = "none"
    /\ Len(history) = 2
    /\ history[1].timestamp < history[2].timestamp
    /\ get_all_calculations[1] = history[2]

\* C15: every clear, by clear_history and by the Clear History button, has
\* the records that were in the store in a backup before the store is
\* emptied, and leaves the store empty.
C15_BackupBeforeClear ==
    [][(ClearHistorySave \/ clear_history_clicked) =>
           /\ history' = <<>>
           /\ get_calculation_count' = 0
           /\ (history # <<>> /\ damage = "none") =>
                  \E t \in DOMAIN backups' : backups'[t] = history]_vars

\* C16: with a history file that cannot be parsed the list is empty, the
\* count is 0, and add_calculation and clear_history return normally.
C16_UnparsableIsEmpty ==
    [][(damage # "none") =>
           /\ GetAllCalculations => ret' = [value |-> <<>>]
           /\ GetCalculationCount => ret' = [value |-> 0]
           /\ AddCalculation => ret' = None
           /\ ClearHistoryBackup => ret' = Pending
           /\ ClearHistorySave => ret' = None]_vars

(***************************************************************************)
(* PubChemAPI instances used directly, as tests/test_api.py does: they are *)
(* created on one cache file, look identifiers up, and clear the cache.    *)
(* Writing the cache file is taken to succeed.                             *)
(***************************************************************************)
MaxInstances == 2

\* the identifiers looked up, their type left to detect_identifier_type:
\* blank ones, the name of the compound as PubChem has it and in another
\* letter case behind a blank, its CID, a name that PubChem does not know
Identifiers ==
    {<<>>, <<" ">>, <<"a", "b">>, <<" ", "A", "b">>, <<"1", "2">>, <<"x">>}

\* the identifiers of robust_lookup: found as given, found when cleaned,
\* found as a CID without its hyphen, a CID
RobustIdentifiers ==
    {<<"a", "b">>, <<"a", " ", "b">>, <<"1", "-", "2">>, <<"1", "2">>}

InitLookup ==
    /\ Idle
    /\ call = NoCall
    /\ ret = NoCall

\* PubChemAPI(cache_file=cache_file)
CreateInstance ==
    /\ Len(cache) < MaxInstances
    /\ cache' = Append(cache, _load_cache)
    /\ call' = [fn |-> "PubChemAPI"]
    /\ ret' = [api |-> Len(cache) + 1]
    /\ queries' = <<>>
    /\ UNCHANGED <<current_mode, entries, units, dialog, history, damage,
                   backups, now, cache_file, mw_lookup, threads, after_queue>>

\* what the operation o of instance api leaves: _save_cache writes the
\* in-memory cache of the instance to the cache file
Done(api, o) ==
    /\ ret' = o.ret
    /\ cache' = [cache EXCEPT ![api] = o.cache]
    /\ cache_file' = IF o.saved THEN [exists |-> TRUE, entries |-> o.cache]
                     ELSE cache_file
    /\ queries' = o.queries

\* lookup(identifier), id_type and use_cache left at their defaults
Lookup ==
    /\ \E api \in DOMAIN cache, identifier \in Identifiers,
          use_cache \in {TRUE}, up \in BOOLEAN :
           /\ call' = [fn |-> "lookup", api |-> api,
                       identifier |-> identifier, id_type |-> "None",
                       use_cache |-> use_cache]
           /\ \E o \in {lookup(cache[api], up, identifier, "None",
                               use_cache)} : Done(api, o)
    /\ UNCHANGED <<current_mode, entries, units, dialog, history, damage,
                   backups, now, mw_lookup, threads, after_queue>>

RobustLookup ==
    /\ \E api \in DOMAIN cache, identifier \in RobustIdentifiers,
          ups \in [{1, 2} -> BOOLEAN] :
           /\ call' = [fn |-> "robust_lookup", api |-> api,
                       identifier |-> identifier]
           /\ \E o \in {robust_lookup(cache[api], ups, identifier)} :
                  Done(api, o)
    /\ UNCHANGED <<current_mode, entries, units, dialog, history, damage,
                   backups, now, mw_lookup, threads, after_queue>>

\* clear_cache that empties the in-memory cache and leaves the file
clear_cache_keeping_file ==
    /\ \E api \in DOMAIN cache :
           /\ call' = [fn |-> "clear_cache", api |-> api]
           /\ cache' = [cache EXCEPT ![api] = NoEntries]
    /\ ret' = None
    /\ queries' = <<>>
    /\ UNCHANGED <<current_mode, entries, units, dialog, history, damage,
                   backups, now, cache_file, mw_lookup, threads, after_queue>>

\* PubChemAPI.clear_cache
ClearCache ==
    /\ \E api \in DOMAIN cache :
           /\ call' = [fn |-> "clear_cache", api |-> api]
           /\ cache' = [cache EXCEPT ![api] = NoEntries]
    /\ cache_file' = NoCacheFile
    /\ ret' = None
    /\ queries' = <<>>
    /\ UNCHANGED <<current_mode, entries, units, dialog, history, damage,
                   backups, now, mw_lookup, threads, after_queue>>

NextLookup ==
    \/ CreateInstance
    \/ Lookup
    \/ RobustLookup
    \/ ClearCache

SpecLookup == InitLookup /\ [][NextLookup]_vars

LookupDone == call.fn = "lookup"

\* the type and the cache key of the lookup in call, as the claim words them
TypeOfCall ==
    IF call.id_type = "None" THEN detect_identifier_type(call.identifier)
    ELSE call.id_type

KeyOfCall == <<TypeOfCall, lower(Strip(call.identifier))>>

IsResult(r) == ~IsRaised(r) /\ r # None

\* C17: a lookup whose key (type, lowercased identifier) the instance holds
\* returns the stored data with cached = true and sends no query; a lookup
\* that finds a compound not held returns cached = false and stores it, in
\* the instance and in the cache file; an instance keeps what it holds and
\* the cache file keeps what it holds, until clear_cache; an instance
\* created afterwards holds what the cache file holds.
C17_CachedLookup ==
    [][/\ (Lookup /\ call'.use_cache
                  /\ KeyOfCall' \in DOMAIN cache[call'.api]) =>
              /\ ret' = [cache[call'.api][KeyOfCall'] EXCEPT !.cached = TRUE]
              /\ queries' = <<>>
       /\ (Lookup /\ KeyOfCall' \notin DOMAIN cache[call'.api]
                  /\ IsResult(ret')) =>
              /\ ret'.cached = FALSE
              /\ KeyOfCall' \in DOMAIN cache'[call'.api]
              /\ cache_file'.exists
              /\ KeyOfCall' \in DOMAIN cache_file'.entries
       /\ ~ClearCache =>
              /\ \A api \in DOMAIN cache :
                     DOMAIN cache[api] \subseteq DOMAIN cache'[api]
              /\ cache_file.exists =>
                     /\ cache_file'.exists
                     /\ DOMAIN cache_file.entries
                            \subseteq DOMAIN cache_file'.entries
       /\ CreateInstance =>
              /\ cache_file.exists
                     => cache'[Len(cache')] = cache_file.entries
              /\ ~cache_file.exists => cache'[Len(cache')] = NoEntries]_vars

\* C18: a lookup whose query failed raises, and returns None only when the
\* query was answered with no compound; robust_lookup does not return the
\* not-found outcome when a query of it failed.
C18_FailureIsNotNotFound ==
    [][/\ (Lookup /\ queries' # <<>>) =>
              /\ queries'[1].answer = "failure" => IsRaised(ret')
              /\ ret' = None => queries'[1].answer = "none"
       /\ RobustLookup =>
              ~(/\ ret'[1] = None
                /\ \E n \in 1..Len(queries') :
                       queries'[n].answer = "failure")]_vars

\* C20: a lookup of an identifier that is empty or holds blanks only
\* returns None, sends no query and leaves every in-memory cache and the
\* cache file as they are.
C20_BlankIdentifier ==
    [][(LookupDone' /\ \A n \in 1..Len(call'.identifier) :
                      call'.identifier[n] = " ") =>
           /\ ret' = None
           /\ queries' = <<>>
           /\ cache' = cache
           /\ cache_file' = cache_file]_vars

C20_Witness ==
    /\ LookupDone
    /\ call.identifier = <<" ">>
    /\ ret = None
    /\ queries = <<>>
    /\ cache[call.api] # NoEntries
    /\ cache_file.exists

(***************************************************************************)
(* The lookup widget of the stock screen at work.  The button handler and  *)
(* the callbacks that the main loop takes from the queue of frame.after    *)
(* run on the main thread; _perform_lookup runs on a background thread of  *)
(* its own.  A thread runs robust_lookup and schedules its callback in one *)
(* step.  Tk is taken to be running: frame.after does not raise.           *)
(***************************************************************************)
DrugNames == {<<>>, <<"a", "b">>, <<" ", "A", "b">>, <<"x">>}

\* what the user enters into the "Manual Entry" box: nothing, or 18
ManualEntries == {None, Lit(18, 0)}

InitWidget ==
    /\ current_mode = "stock"
    /\ entries = [drug_name_var |-> <<>>, mw_var |-> <<>>, conc_var |-> <<>>,
                  vol_var |-> <<>>, solvent_var |-> <<>>]
    /\ units = [conc_unit_var |-> "mM", vol_unit_var |-> "µL"]
    /\ dialog = NoDialog
    /\ history = <<>>
    /\ damage = "none"
    /\ backups = NoBackups
    /\ now = 0
    /\ call = NoCall
    /\ ret = NoCall
    /\ LookupOfScreen

\* the user edits the drug name
TypeDrugName ==
    /\ current_mode = "stock"
    /\ dialog = NoDialog
    /\ \E t \in DrugNames \ {entries.drug_name_var} :
           entries' = [entries EXCEPT !.drug_name_var = t]
    /\ UNCHANGED <<current_mode, units, dialog, history, damage, backups,
                   now, call, ret>>
    /\ UNCHANGED pubchem_vars

\* the Lookup MW button, on the main thread
_on_lookup_clicked ==
    /\ mw_lookup # NoWidget
    /\ mw_lookup.lookup_button = "normal"
    /\ dialog = NoDialog
    /\ IF Strip(entries.drug_name_var) = <<>>
       THEN /\ dialog' = showwarning("Input Required",
                             "Please enter a drug name or CAS number first.")
            /\ UNCHANGED <<mw_lookup, threads>>
       ELSE /\ mw_lookup' =
                   [mw_lookup EXCEPT
                       !.original_query = Strip(entries.drug_name_var),
                       !.lookup_button = "disabled",
                       !.status_label = "Searching PubChem..."]
            /\ threads' = threads \cup
                              {[api |-> mw_lookup.api,
                                identifier |-> Strip(entries.drug_name_var)]}
            /\ UNCHANGED dialog
    /\ UNCHANGED <<current_mode, entries, units, history, damage, backups,
                   now, call, ret, cache, cache_file, queries, after_queue>>

\* frame.after(0, callback, *args)
after(callback, api, args) ==
    Append(after_queue, [callback |-> callback, api |-> api, args |-> args])

\* _perform_lookup that handles the result itself, on its own thread
perform_lookup_in_place ==
    /\ \E th \in threads, ups \in [{1, 2} -> BOOLEAN] :
           /\ call' = [fn |-> "robust_lookup", api |-> th.api,
                       identifier |-> th.identifier]
           /\ \E o \in {robust_lookup(cache[th.api], ups, th.identifier)} :
                  /\ Done(th.api, o)
                  /\ mw_lookup' =
                         [mw_lookup EXCEPT
                             !.lookup_button = "normal",
                             !.status_label =
                                 IF o.ret[1] = None THEN "Not found"
                                 ELSE "web Ab - F (CID: 12)"]
           /\ threads' = threads \ {th}
    /\ UNCHANGED <<current_mode, entries, units, dialog, history, damage,
                   backups, now, after_queue>>

\* _perform_lookup, on the background thread th
_perform_lookup ==
    /\ \E th \in threads, ups \in [{1, 2} -> BOOLEAN] :
           /\ call' = [fn |-> "robust_lookup", api |-> th.api,
                       identifier |-> th.identifier]
           /\ \E o \in {robust_lookup(cache[th.api], ups, th.identifier)} :
                  /\ Done(th.api, o)
                  /\ after_queue' = after("_handle_lookup_result", th.api,
                                          <<o.ret[1], th.identifier>>)
           /\ threads' = threads \ {th}
    /\ UNCHANGED <<current_mode, entries, units, dialog, history, damage,
                   backups, now, mw_lookup>>

\* f"{cache_indicator} {display_name} - {molecular_formula} (CID: {cid})";
\* the labels are given without their pictograms, the cache indicator as a
\* word
status_text(result) ==
    IF result.cached THEN "disk Ab - F (CID: 12)" ELSE "web Ab - F (CID: 12)"

\* _handle_lookup_result with a compound: the field is filled, the status
\* shown, the information window opened
ResultShown(result) ==
    /\ mw_lookup' = [mw_lookup EXCEPT !.lookup_button = "normal",
                                      !.current_result = result,
                                      !.status_label = status_text(result),
                                      !.info_window = TRUE]
    /\ entries' = [entries EXCEPT
                      !.mw_var = FormatFixed(result.molecular_weight, 2)]

\* _handle_lookup_result without one: the "Compound Not Found" question is
\* answered with response, the "Manual Entry" box with mw
NotFoundShown(response, mw) ==
    IF response /\ mw # None /\ ~IsZero(mw)
    THEN /\ mw_lookup' = [mw_lookup EXCEPT
                             !.lookup_button = "normal",
                             !.status_label = "Manually entered"]
         /\ entries' = [entries EXCEPT !.mw_var = FormatFixed(mw, 2)]
    ELSE /\ mw_lookup' = [mw_lookup EXCEPT !.lookup_button = "normal",
                                          !.status_label = "Not found"]
         /\ UNCHANGED entries

\* _handle_lookup_result that enables the button only with a compound
handle_result_keeping_disabled(result, identifier) ==
    /\ IF result # None THEN ResultShown(result)
       ELSE /\ mw_lookup' = [mw_lookup EXCEPT !.status_label = "Not found"]
            /\ UNCHANGED entries
    /\ UNCHANGED dialog

_handle_lookup_result(result, identifier) ==
    /\ IF result # None THEN ResultShown(result)
       ELSE \E response \in BOOLEAN, mw \in ManualEntries :
                NotFoundShown(response, mw)
    /\ UNCHANGED dialog

_handle_lookup_error(error_msg) ==
    /\ mw_lookup' = [mw_lookup EXCEPT !.lookup_button = "normal",
                                      !.status_label = "Error"]
    /\ dialog' = showerror("Lookup Error", error_msg)
    /\ UNCHANGED entries

\* the main loop runs the first scheduled callback, on the main thread; the
\* callback of a widget that was destroyed raises TclError at its first
\* statement
mainloop ==
    /\ after_queue # <<>>
    /\ after_queue' = Tail(after_queue)
    /\ IF mw_lookup = NoWidget \/ mw_lookup.api # Head(after_queue).api
       THEN UNCHANGED <<mw_lookup, entries, dialog>>
       ELSE IF Head(after_queue).callback = "_handle_lookup_result"
       THEN _handle_lookup_result(Head(after_queue).args[1],
                                  Head(after_queue).args[2])
       ELSE _handle_lookup_error(Head(after_queue).args[1])
    /\ UNCHANGED <<current_mode, units, history, damage, backups, now, call,
                   ret, cache, cache_file, queries, threads>>

NextWidget ==
    \/ TypeDrugName
    \/ _on_lookup_clicked
    \/ _perform_lookup
    \/ mainloop
    \/ CloseDialog

SpecWidget == InitWidget /\ [][NextWidget]_vars

\* widget state: the lookup widget, the entry fields, the dialogs
WidgetState == <<mw_lookup, entries, dialog>>

\* C19: the step that queries PubChem is the step of the background thread
\* and changes no widget state; the MW field, the status label and the
\* button change in steps of the main thread only, and what a lookup gave
\* reaches them through a callback taken from the queue of frame.after.
C19_LookupOffMainThread ==
    [][/\ _perform_lookup => UNCHANGED WidgetState
       /\ (queries' # queries \/ cache' # cache \/ cache_file' # cache_file)
              => _perform_lookup
       /\ (mw_lookup' # mw_lookup /\ mw_lookup'.lookup_button = "normal")
              => (mainloop /\ Len(after_queue) = Len(after_queue') + 1)
       /\ entries'.mw_var # entries.mw_var => mainloop]_vars

C19_Witness ==
    /\ mw_lookup # NoWidget
    /\ mw_lookup.lookup_button = "normal"
    /\ mw_lookup.status_label = "web Ab - F (CID: 12)"
    /\ entries.mw_var = <<"4", "6", "6", ".", "3", "5">>
    /\ call.fn = "robust_lookup"
    /\ queries # <<>>
    /\ threads = {}
    /\ after_queue = <<>>

(***************************************************************************)
(* detect_identifier_type called on its own, as test_auto_detection does.  *)
(* The identifiers are texts of each pattern and texts that miss one by a  *)
(* character, between zero to two blanks on either side.                   *)
(***************************************************************************)
DetectCores ==
    {<<>>,
     <<"a", "b">>,
     <<"5", "0", "-", "1", "8", "-", "0">>,
     <<"1", "-", "2", "3", "-", "4">>,
     <<"1", "2", "3", "4", "5", "6", "7", "-", "1", "2", "-", "1">>,
     <<"1", "2", "3", "4", "5", "6", "7", "8", "-", "1", "2", "-", "1">>,
     <<"5", "0", "-", "1", "8", "-", "0", "x">>,
     <<"5", "0", "-", "1", "-", "0">>,
     <<"5", "0", " ", "1", "8", " ", "0">>,
     <<"-", "1", "8", "-", "0">>,
     <<"5">>,
     <<"2", "2", "4", "4">>,
     <<"2", "2", " ", "4">>,
     <<"2", "2", "a">>,
     <<"-", "2">>,
     <<"C", "H", "E", "M", "B", "L", "2", "5">>,
     <<"c", "h", "e", "m", "b", "l", "2", "5">>,
     <<"C", "h", "E", "m", "b", "L", "2">>,
     <<"C", "H", "E", "M", "B", "L">>,
     <<"C", "H", "E", "M", "B", "L", "2", "x">>,
     <<"x", "C", "H", "E", "M", "B", "L", "2">>,
     <<"I", "n", "C", "h", "I", "=", "1", "S">>,
     <<"I", "n", "C", "h", "I", "=">>,
     <<"i", "n", "c", "h", "i", "=", "1", "S">>,
     <<"I", "N", "C", "H", "I", "=", "1", "S">>,
     <<"I", "n", "C", "h", "I", "1", "S">>,
     <<"x", "I", "n", "C", "h", "I", "=">>}

Blanks(n) == [i \in 1..n |-> " "]

DetectTexts ==
    {Blanks(l) \o t \o Blanks(r) : l \in 0..2, r \in 0..2, t \in DetectCores}

InitDetect ==
    /\ Idle
    /\ call = NoCall
    /\ ret = NoCall

Detect ==
    /\ \E identifier \in DetectTexts :
           /\ call' = [fn |-> "detect_identifier_type",
                       identifier |-> identifier]
           /\ ret' = detect_identifier_type(identifier)
    /\ UNCHANGED <<current_mode, entries, units, dialog, history, damage,
                   backups, now>>
    /\ UNCHANGED pubchem_vars

NextDetect == Detect

SpecDetect == InitDetect /\ [][NextDetect]_vars

\* the patterns as the claim words them, on the text without the blanks
\* around it
SplitAt(t, i) == <<SubSeq(t, 1, i - 1), SubSeq(t, i + 1, Len(t))>>

AllDigits(t) == Len(t) > 0 /\ \A i \in DOMAIN t : t[i] \in Digits

\* digits, a hyphen, two digits, a hyphen, one digit
LooksCas(t) ==
    \E i \in DOMAIN t :
        /\ t[i] = "-"
        /\ AllDigits(SplitAt(t, i)[1])
        /\ Len(SplitAt(t, i)[2]) = 4
        /\ AllDigits(SubSeq(SplitAt(t, i)[2], 1, 2))
        /\ SplitAt(t, i)[2][3] = "-"
        /\ SplitAt(t, i)[2][4] \in Digits

\* CHEMBL in any letter case, then digits
LooksChembl(t) ==
    /\ Len(t) > 6
    /\ lower(SubSeq(t, 1, 6)) = <<"c", "h", "e", "m", "b", "l">>
    /\ AllDigits(SubSeq(t, 7, Len(t)))

LooksInchi(t) ==
    /\ Len(t) >= 6
    /\ SubSeq(t, 1, 6) = <<"I", "n", "C", "h", "I", "=">>

\* the text from its first to its last character that is not a blank
Unpadded(t) ==
    IF \A i \in DOMAIN t : t[i] = " " THEN <<>>
    ELSE SubSeq(t,
                CHOOSE i \in DOMAIN t :
                    t[i] # " " /\ \A j \in 1..(i - 1) : t[j] = " ",
                CHOOSE i \in DOMAIN t :
                    t[i] # " " /\ \A j \in (i + 1)..Len(t) : t[j] = " ")

Classified(t) ==
    IF LooksCas(t) THEN "name"
    ELSE IF AllDigits(t) THEN "cid"
    ELSE IF LooksChembl(t) THEN "name"
    ELSE IF LooksInchi(t) THEN "inchi"
    ELSE "name"

DetectDone == call # NoCall /\ call.fn = "detect_identifier_type"

\* C21: detect_identifier_type classifies the identifier without the blanks
\* around it: a CAS number is "name", an all-digit text "cid", a CHEMBL id
\* in any letter case "name", a text starting with "InChI=" "inchi",
\* everything else "name"; the result is one of "name", "cid", "inchi".
C21_DetectedType ==
    DetectDone =>
        /\ ret = Classified(Unpadded(call.identifier))
        /\ ret \in {"name", "cid", "inchi"}

\* a number of PubChem with blanks around it is a "cid"
C21_Witness ==
    /\ DetectDone
    /\ call.identifier = <<" ", " ", "2", "2", "4", "4", " ">>
    /\ ret = "cid"

(***************************************************************************)
(* format_number: the text before and after the trailing zeros are cut.    *)
(***************************************************************************)
\* the texts a and b denote the same number
SameNumber(a, b) ==
    /\ SignOf(a) = SignOf(b)
    /\ IF TextExp10(a) <= TextExp10(b)
       THEN BigCmp(TextDigits(a),
                   BigMul(TextDigits(b),
                          BigPow10(TextExp10(b) - TextExp10(a)))) = 0
       ELSE BigCmp(BigMul(TextDigits(a),
                          BigPow10(TextExp10(a) - TextExp10(b))),
                   TextDigits(b)) = 0

\* the text format_number has after rounding, before it cuts anything
RoundedText == FormatBand(FAbs(call.value), call.value)

\* C22: for every non-zero value, those below 0.01 that are written with an
\* exponent included, the text format_number returns denotes the same
\* number as the rounded text it cut the trailing zeros and the bare
\* decimal point from.
C22_StripKeepsValue ==
    (FormatDone /\ IsFin(call.value) /\ ~IsZero(call.value)) =>
        SameNumber(ret.text, RoundedText)

(***************************************************************************)
(* robust_lookup: the strategies it names and the queries it sends.        *)
(***************************************************************************)
RobustDone == call.fn = "robust_lookup"

\* the strategies that apply to the identifier, in the order of the claim
HyphensRemoved(t) == SelectSeq(t, LAMBDA x : x # "-")

WordsAndHyphens(t) ==
    SelectSeq(t, LAMBDA x : x \notin {" ", ".", ",", "=", "(", ")"})

Applicable(t, id_type) ==
    <<<<id_type, t>>>>
        \o (IF WordsAndHyphens(t) # t
            THEN <<<<id_type, WordsAndHyphens(t)>>>> ELSE <<>>)
        \o (IF AllDigits(HyphensRemoved(t)) /\ id_type # "cid"
            THEN <<<<"cid", HyphensRemoved(t)>>>> ELSE <<>>)

\* the strategy s needs a query when its identifier is not blank and the
\* instance, whose cache was c, does not hold its key: "query", "blank" or
\* "held"
NeedOf(c, s) ==
    IF \A i \in DOMAIN s[2] : s[2][i] = " " THEN "blank"
    ELSE IF <<s[1], lower(Unpadded(s[2]))>> \in DOMAIN c THEN "held"
    ELSE "query"

QueriesBefore(needs, k) == Cardinality({j \in 1..k : needs[j] = "query"})

\* what the k-th strategy tried gave: "compound", "none" or "failure"
OutcomeOf(needs, sent, k) ==
    CASE needs[k] = "blank" -> "none"
      [] needs[k] = "held" -> "compound"
      [] needs[k] = "query" -> sent[QueriesBefore(needs, k)].answer

\* the call tried the strategies tried, of those applicable, with the needs
\* needs, sent the queries sent and returned result
InOrder(tried, needs, applicable, sent, result) ==
    /\ Len(tried) >= 1
    /\ Len(tried) <= Len(applicable)
    /\ tried = SubSeq(applicable, 1, Len(tried))
    /\ Len(sent) = QueriesBefore(needs, Len(tried))
    /\ \A k \in 1..Len(tried) :
           needs[k] = "query" =>
               \A q \in {sent[QueriesBefore(needs, k)]} :
                   /\ q.identifier = tried[k][2]
                   /\ q.id_type = tried[k][1]
    /\ \A k \in 1..(Len(tried) - 1) :
           OutcomeOf(needs, sent, k) # "compound"
    /\ IF result = None
       THEN /\ Len(tried) = Len(applicable)
            /\ OutcomeOf(needs, sent, Len(tried)) # "compound"
       ELSE /\ OutcomeOf(needs, sent, Len(tried)) = "compound"
            /\ IsResult(result)

ClearDone == call.fn = "clear_cache"

\* C24: after clear_cache the cache of the instance holds no entry and the
\* cache file does not exist; the cache of an instance stays empty until a
\* lookup of that instance; and a lookup of an instance whose cache is
\* empty that finds a compound has queried PubChem and returns the result
\* with cached = false.
C24_ClearCache ==
    [][/\ ClearDone' =>
              /\ Cardinality(DOMAIN cache'[call'.api]) = 0
              /\ ~cache_file'.exists
       /\ \A api \in DOMAIN cache :
              (cache[api] = NoEntries /\ cache'[api] # NoEntries) =>
                  /\ LookupDone' \/ RobustDone'
                  /\ call'.api = api
       /\ (LookupDone' /\ cache[call'.api] = NoEntries /\ IsResult(ret')) =>
              /\ queries' # <<>>
              /\ queries'[Len(queries')].answer = "compound"
              /\ ~ret'.cached
       /\ (RobustDone' /\ cache[call'.api] = NoEntries /\ ret'[1] # None) =>
              /\ queries' # <<>>
              /\ queries'[Len(queries')].answer = "compound"
              /\ ~ret'[1].cached]_vars

\* an instance cleared the cache after the other had looked a compound up
C24_Witness ==
    /\ call.fn = "clear_cache"
    /\ cache[call.api] = NoEntries
    /\ ~cache_file.exists
    /\ \E api \in DOMAIN cache : cache[api] # NoEntries

(***************************************************************************)
(* The Calculate handlers and the history store.                           *)
(***************************************************************************)
\* the text of a field is a number above zero, written with a period
PositiveNumberText(t) ==
    /\ ~Contains(t, ",")
    /\ PyFloat(t).ok
    /\ PositiveReal(PyFloat(t).v)

\* a drug name is given and every numeric field holds a positive number
InputsValid ==
    /\ Unpadded(entries.drug_name_var) # <<>>
    /\ \A f \in NumericFields(current_mode) : PositiveNumberText(entries[f])

\* the calculator was called and gave a result: it did not raise, and the
\* dilution was not infeasible
CalculationSucceeded ==
    /\ call.fn \in {"calculate_stock_from_powder", "calculate_dilution"}
    /\ ~IsRaised(ret)
    /\ call.fn = "calculate_dilution" => ~ret.error

\* C25: a Calculate handler appends exactly one record to the history when
\* the drug name is given, every number is valid and positive and the
\* calculation succeeds, and leaves the history as it was in every other
\* case.
C25_OneRecordOnSuccess ==
    [][(calculate_stock \/ calculate_dilution_clicked) =>
          IF InputsValid /\ CalculationSucceeded'
          THEN /\ Len(history') = Len(history) + 1
               /\ SubSeq(history', 1, Len(history)) = history
          ELSE history' = history]_vars

(***************************************************************************)
(* The records and the backup files across appends and clears.             *)
(***************************************************************************)
\* the records of the file h
RecordsOf(h) == {h[i] : i \in 1..Len(h)}

\* the records kept somewhere: in the history file or in a backup file
Kept(h, b) == RecordsOf(h) \cup UNION {RecordsOf(b[t]) : t \in DOMAIN b}

\* C26: across appends and clears, a backup file once written stays as it
\* was written, and every record that is in the history file or in a
\* backup file is in the history file or in a backup file afterwards.
C26_NoRecordLost ==
    [][~DamageFile =>
          /\ \A t \in DOMAIN backups :
                 /\ t \in DOMAIN backups'
                 /\ backups'[t] = backups[t]
          /\ Kept(history, backups) \subseteq Kept(history', backups')]_vars

(***************************************************************************)
(* Several instances on one cache file.                                    *)
(***************************************************************************)
\* C27: whatever the instances do, short of clear_cache, the cache file
\* stays and every entry that is in the cache file is in the cache file
\* afterwards.
C27_FileKeepsEntries ==
    [][(~ClearCache /\ cache_file.exists) =>
          /\ cache_file'.exists
          /\ \A key \in DOMAIN cache_file.entries :
                 /\ key \in DOMAIN cache_file'.entries
                 /\ cache_file'.entries[key].molecular_weight
                        = cache_file.entries[key].molecular_weight]_vars

(***************************************************************************)
(* Lookups that find nothing or fail.                                      *)
(***************************************************************************)
\* C28: a lookup that returns None or raises ChemicalLookupError, and a
\* robust_lookup that returns no result, leave the in-memory caches and the
\* cache file as they were; a lookup that changes a cache has found a
\* compound; and a lookup of an identifier that is not blank returns None
\* only after a query: no not-found outcome comes from the cache.
C28_NotFoundNotCached ==
    [][/\ (LookupDone' /\ ~IsResult(ret')) =>
              /\ cache' = cache
              /\ cache_file' = cache_file
       /\ (LookupDone' /\ cache' # cache) => IsResult(ret')
       /\ (RobustDone' /\ ret'[1] = None) =>
              /\ cache' = cache
              /\ cache_file' = cache_file
       /\ (LookupDone' /\ ret' = None /\ Unpadded(call'.identifier) # <<>>) =>
              /\ Len(queries') = 1
              /\ queries'[1].answer = "none"
              /\ KeyOfCall' \notin DOMAIN cache'[call'.api]]_vars

\* a name that PubChem does not know was looked up by an instance that
\* holds an entry: None, after a query, and the entry is all it holds
C28_Witness ==
    /\ LookupDone
    /\ call.identifier = <<"x">>
    /\ ret = None
    /\ Len(queries) = 1
    /\ DOMAIN cache[call.api] = {<<"name", <<"a", "b">>>>}
    /\ cache_file.exists

(***************************************************************************)
(* The lookup widget while the user may also leave the stock screen with   *)
(* Back to Menu and open it again, which destroys the widget and builds a  *)
(* new one with an instance of its own.  The user enters the drug name    *)
(* once on each visit, and the lookups that were left behind are at most   *)
(* MaxPending.  Every started thread comes to its end and the main loop    *)
(* keeps taking callbacks: the answer of PubChem is taken to arrive.       *)
(***************************************************************************)
MaxPending == 2

NextLifecycle ==
    \/ (current_mode = "stock" /\ entries.drug_name_var = <<>>
                                /\ TypeDrugName)
    \/ _on_lookup_clicked
    \/ _perform_lookup
    \/ mainloop
    \/ CloseDialog
    \/ show_welcome_screen
    \/ (Cardinality(Held) < MaxPending /\ show_stock_calculator)

\* a thread comes to its end: the step of _perform_lookup
ThreadEnds == \E th \in threads : threads' = threads \ {th}

\* a callback is taken from the queue and run: the step of mainloop
CallbackRun == after_queue # <<>> /\ after_queue' = Tail(after_queue)

SpecLifecycle ==
    /\ InitWidget
    /\ [][NextLifecycle]_vars
    /\ WF_threads(ThreadEnds)
    /\ WF_after_queue(CallbackRun)

\* the lookups of the instance api that are under way: their threads and
\* their scheduled callbacks
UnderWay(api) ==
    Cardinality({th \in threads : th.api = api})
        + Cardinality({n \in 1..Len(after_queue) : after_queue[n].api = api})

Disabled == mw_lookup # NoWidget /\ mw_lookup.lookup_button = "disabled"

C30_FillMatchesName ==
    [][CallbackRun =>
           IF mw_lookup # NoWidget /\ mw_lookup.api = Head(after_queue).api
           THEN (/\ Head(after_queue).callback = "_handle_lookup_result"
                 /\ Head(after_queue).args[1] # None) =>
                    Strip(entries.drug_name_var) = Head(after_queue).args[2]
           ELSE entries' = entries]_vars

====
